---------------------------- MODULE Spec2Model ----------------------------
(***************************************************************************)
(* A model of the GTK backend of winit (crate winit-gtk): the run / pump   *)
(* state machine of EventLoop, the window request channel and its single   *)
(* consumer, the queued-event and redraw channels, the proxy wake flag and *)
(* the process-wide creation guard of EventLoop::new.                      *)
(*                                                                         *)
(* Threads.  The main-loop thread executes the driver; its position is the *)
(* variable pc, and the application callback it last entered is cb: the    *)
(* callback is running until the driver takes its next step.  Any number   *)
(* of other threads call the thread-agnostic operations (Window methods,   *)
(* EventLoopProxy::wake_up); each of those is an enqueue or store followed *)
(* by MainContext::wakeup, two separate steps.                             *)
(*                                                                         *)
(* Time is kept relative: a duration is a number of ticks, a deadline is   *)
(* the number of ticks that remain until it.                               *)
(***************************************************************************)
EXTENDS Integers, Sequences, FiniteSets, TLC

\* ------------------------------------------------------------------ bounds
MaxWindows == 1     \* windows ever created
MaxSends == 2       \* window requests ever enqueued, beside each window's WireUpEvents
MaxEvents == 3      \* queued events ever produced by signal callbacks
MaxRedrawQ == 2     \* redraw ids waiting in the redraw channel
MaxWakes == 2       \* EventLoopProxy::wake_up calls
MaxDelta == 1       \* longest duration (caller timeout, deadline distance)
NThreads == 1       \* producer threads beside the main-loop thread
NCallers == 3       \* calls of EventLoop::new
MaxSize == 2        \* largest logical width or height of a window
MaxScale == 3       \* largest scale factor, in halves
MaxPtr == 2         \* largest native pointer or X11 window id
MaxQueries == 2     \* handle queries made on one owned handle

WindowIds == 1..MaxWindows
Threads == 1..NThreads
Callers == 1..NCallers
Titles == {"A", "B"}

\* Option<T>: None is the empty sequence, Some(v) the one-element sequence.
None == <<>>
Some(v) == <<v>>
IsSome(o) == Len(o) = 1
Unwrap(o) == o[1]

VARIABLES
    \* EventLoop::new
    created,         \* static EVENT_LOOP_CREATED
    new_pc,          \* position / outcome of each call of EventLoop::new
    new_attr,        \* per call: attributes.any_thread and is_main_thread()
    \* EventLoop and ActiveEventLoop
    pc,              \* position of the main-loop thread in the driver
    cb,              \* the application callback being executed, or "none"
    in_run,          \* inside run_app_on_demand
    run_result,      \* what run_app_on_demand returned: "none" before the
                     \* first call, "running" during one
    loop_running,    \* EventLoop.loop_running
    exit_code,       \* ActiveEventLoop.exit_code : Option<i32>
    control_flow,    \* ActiveEventLoop.control_flow
    proxy_wake_flag, \* ActiveEventLoop.proxy_wake_flag
    cause,           \* the StartCause of the iteration
    timeout,         \* the local `timeout` of poll_events_with_timeout
    timer,           \* gtk_poll's timeout source: None, or ticks left
    timer_fired,     \* gtk_poll's timer_fired cell
    redraws,         \* single_iteration's local HashSet `redraws`
    \* channels
    events_first,    \* events_rx.first
    events_q,        \* the crossbeam channel behind events_rx
    redraw_first,    \* redraw_rx.first
    redraw_q,        \* the crossbeam channel behind redraw_rx
    requests,        \* the async channel of (WindowId, WindowRequest)
    \* windows
    windows,         \* the registry: ids with an EventLoopWindow entry
    native,          \* the native gtk::ApplicationWindow of each id
    handles,         \* ids whose Window handle the application holds
    next_id,         \* the next id gtk hands out
    native_q,        \* native events waiting in the GLib main context
    configured,      \* per window: the configure signals handled so far
    win_state,       \* per window: the surface size in its shared state, named
                     \* by the number of the configure that reported it
    \* GLib main context and producer threads
    wake_token,      \* MainContext::wakeup signalled and not yet acknowledged
    bg_wake,         \* per producer thread: its context.wakeup() is still due
    \* history
    n_sent,          \* number of window requests enqueued so far
    processed,       \* serials of the requests the consumer received, in order
    destroy_seen,    \* ids for which the consumer has received a Destroy
    late_seen,       \* ids for which it has received a request after a Destroy
    consumer,        \* the consumer task: "spawned", "running" or "panicked"
    ev_serial,       \* number of queued events produced so far
    delivered,       \* serials of the queued events handed to the application
    iter_log,        \* the callbacks of the current iteration, in order
    iter_start,      \* what was pending when the iteration began
    n_wake_calls,    \* wake_up calls so far
    n_proxy_cb,      \* proxy_wake_up callbacks so far
    exit_in_we,      \* exit() was called inside a window_event callback, and
                     \* since then no clear_exit and no failed pump
    exit_called,     \* exit() was called since the last pump that returned Exit
    status,          \* what the last pump call returned
    drained,         \* this pump call has finished a drain pass of gtk_poll
    fired,           \* in this pump call the caller's timeout or the deadline
                     \* of the control flow has run out
    run_iters,       \* iterations begun in this run, counted up to 2
    failed,          \* sends that returned an error so far
    gone,            \* per window: Destroyed events handed to the application
    rx_ret,          \* what the last call on a PeekableReceiver returned
    timer_rm,        \* how the timer source of this gtk_poll was removed, each
                     \* removal in turn: it fired, or gtk_poll removed it
    \* SharedWindowState
    wstate,          \* the WindowState behind the mutex
    stored,          \* the values last passed to its updates, the arguments
                     \* and the result of the last one, and the last two
                     \* updates made
    lock,            \* the thread that holds the mutex of the state, or Unlocked
    upd,             \* the update_position_and_size the main thread is inside
    rd,              \* per thread: the getter it is inside, and what it has read
    closure,         \* the request whose closure the consumer is running
    \* raw handles
    hd_in,           \* what the build and the platform give one construction
    hd,              \* the owned handle: NoHandle, Panicked or a variant
    hd_got           \* the results of the queries made on it, in order

newVars == <<created, new_pc, new_attr>>
loopVars == <<pc, cb, in_run, run_result, loop_running, exit_code, control_flow, proxy_wake_flag,
              cause, timeout, timer, timer_fired, redraws>>
chanVars == <<events_first, events_q, redraw_first, redraw_q, requests>>
winVars == <<windows, native, handles, next_id, native_q, configured, win_state>>
glibVars == <<wake_token, bg_wake>>
histVars == <<n_sent, processed, destroy_seen, late_seen, consumer, ev_serial, delivered, iter_log, iter_start,
              n_wake_calls, n_proxy_cb, exit_in_we, exit_called, status, drained,
              fired, run_iters, failed, gone, rx_ret, timer_rm>>
stateVars == <<wstate, stored, lock, upd, rd, closure>>
handleVars == <<hd_in, hd, hd_got>>
vars == <<newVars, loopVars, chanVars, winVars, glibVars, histVars, stateVars, handleVars>>

\* ------------------------------------------------------------ data types
Poll == [kind |-> "Poll", rem |-> 0]
Wait == [kind |-> "Wait", rem |-> 0]
WaitUntil(d) == [kind |-> "WaitUntil", rem |-> d]
ControlFlows == {Poll, Wait} \cup {WaitUntil(d) : d \in 0..MaxDelta}

CauseInit == [kind |-> "Init", resume |-> None]
NoWindow == [alive |-> FALSE, title |-> "", visible |-> FALSE, resizable |-> FALSE,
             wired |-> 0, closures |-> 0]
Continue == [k |-> "Continue", code |-> 0]
Exit(code) == [k |-> "Exit", code |-> code]
NoStatus == [k |-> "none", code |-> 0]

Min(a, b) == IF a <= b THEN a ELSE b
Last(s) == s[Len(s)]


Timeouts == {None} \cup {Some(t) : t \in 0..MaxDelta}

\* ------------------------------------------------------ PeekableReceiver
\* A has_incoming that takes the item off the channel and forgets it.
HasIncomingTake(first, q) ==
    IF IsSome(first) THEN <<TRUE, first, q>>
    ELSE IF q # <<>> THEN <<TRUE, first, Tail(q)>>
    ELSE <<FALSE, first, q>>

\* has_incoming: <<result, first', channel'>>; a successful try_recv on the
\* channel moves its head into `first`.
HasIncoming(first, q) ==
    IF IsSome(first) THEN <<TRUE, first, q>>
    ELSE IF q # <<>> THEN <<TRUE, Some(Head(q)), Tail(q)>>
    ELSE <<FALSE, first, q>>

\* A try_recv that asks the channel before it looks at `first`.
TryRecvChannelFirst(first, q) ==
    IF q # <<>> THEN <<Some(Head(q)), first, Tail(q)>>
    ELSE IF IsSome(first) THEN <<first, None, q>>
    ELSE <<None, first, q>>

\* try_recv: <<Option<item>, first', channel'>>; `first` is taken before the
\* channel is asked.
TryRecv(first, q) ==
    IF IsSome(first) THEN <<first, None, q>>
    ELSE IF q # <<>> THEN <<Some(Head(q)), None, Tail(q)>>
    ELSE <<None, first, q>>

\* No call has been made on the receiver.
NoCall == [op |-> "none", ok |-> FALSE, item |-> None]

\* ------------------------------------------------------ GLib main context
\* The sources of the main context that are ready to be dispatched: the
\* consumer task (when just spawned, and when woken by a send on its
\* channel), native events, and gtk_poll's timeout source once its time has
\* come.
TimerDue == IsSome(timer) /\ Unwrap(timer) = 0

\* A consumer task that no send wakes.
ConsumerAsleep == FALSE

\* The consumer task is ready once a send on window_requests_tx has woken it:
\* it waits in recv().await, and stays ready until it has run.
ConsumerWoken == consumer = "running" /\ requests # <<>>
ConsumerReady == consumer = "spawned" \/ ConsumerWoken
SourcesReady == ConsumerReady \/ native_q # <<>> \/ TimerDue

\* ---------------------------------------------------- poll_events_with_timeout
ControlFlowTimeout(cf) ==
    CASE cf.kind = "Wait" -> None
      [] cf.kind = "Poll" -> Some(0)
      [] OTHER -> Some(cf.rem)

\* A minimum that keeps the caller's timeout whenever there is one.
MinTimeoutCaller(a, b) == IF a = None THEN b ELSE a

\* poll_events_with_timeout: `match (timeout, control_flow_timeout)`
MinTimeout(a, b) ==
    IF a = None THEN b
    ELSE IF b = None THEN a
    ELSE Some(Min(Unwrap(a), Unwrap(b)))

EffectiveTimeout(pending, caller, cf) ==
    IF pending THEN Some(0) ELSE MinTimeout(caller, ControlFlowTimeout(cf))

\* A start cause that takes every deadline as reached.
StartCauseReached(cf) ==
    CASE cf.kind = "Poll" -> [kind |-> "Poll", resume |-> None]
      [] cf.kind = "Wait" -> [kind |-> "WaitCancelled", resume |-> None]
      [] OTHER -> [kind |-> "ResumeTimeReached", resume |-> Some("deadline")]

\* poll_events_with_timeout: `let cause = match self.window_target.control_flow()`
StartCauseOf(cf) ==
    CASE cf.kind = "Poll" -> [kind |-> "Poll", resume |-> None]
      [] cf.kind = "Wait" -> [kind |-> "WaitCancelled", resume |-> None]
      [] OTHER -> IF cf.rem > 0
                  THEN [kind |-> "WaitCancelled", resume |-> Some("deadline")]
                  ELSE [kind |-> "ResumeTimeReached", resume |-> Some("deadline")]

\* The early return of poll_events_with_timeout: no iteration is run.
SkipIteration(pending, c, t) ==
    ~pending /\ c.kind \notin {"ResumeTimeReached", "Poll"} /\ t = None

\* ------------------------------------------------------------- callbacks
Entry(name, id, ev) == [cb |-> name, id |-> id, ev |-> ev]
Callback(name, id, ev) ==
    /\ cb' = name
    /\ iter_log' = Append(iter_log, Entry(name, id, ev))

IsRedraw(e) == e.cb = "window_event" /\ e.ev = "RedrawRequested"

\* What a PeekableReceiver holds, oldest first.
Queued(first, q) == first \o q

\* -------------------------------------------------------------- the driver
\* pump_app_events, up to the first iteration or the exiting() test.
PumpAppEvents(t) ==
    /\ pc = "idle"
    /\ in_run => t = None
    /\ timeout' = t
    /\ IF ~loop_running
       THEN loop_running' = TRUE /\ cause' = CauseInit /\ pc' = "new_events"
       ELSE pc' = "check_exiting" /\ UNCHANGED <<loop_running, cause>>
    /\ cb' = "none"
    /\ status' = NoStatus
    /\ drained' = FALSE
    /\ fired' = FALSE
    /\ UNCHANGED <<created, new_pc, new_attr, in_run, run_result, exit_code, control_flow,
                    proxy_wake_flag, timer, timer_fired, redraws, events_first, events_q,
                    redraw_first, redraw_q, requests, windows, native, handles, next_id,
                    native_q, configured, win_state, wake_token, bg_wake, n_sent, processed,
                    destroy_seen, late_seen, consumer, ev_serial, delivered, iter_log,
                    iter_start, n_wake_calls, n_proxy_cb, exit_in_we, exit_called,
                    run_iters, failed, gone, rx_ret, timer_rm, wstate, stored, lock, upd,
                    rd, closure, hd_in, hd, hd_got>>

\* pump_app_events when the main context cannot be acquired: Exit(1).
PumpAcquireFail ==
    /\ pc = "idle" /\ ~in_run
    /\ status' = Exit(1)
    /\ cb' = "none"
    /\ exit_in_we' = FALSE
    /\ UNCHANGED <<created, new_pc, new_attr, pc, in_run, run_result, loop_running,
                    exit_code, control_flow, proxy_wake_flag, cause, timeout, timer,
                    timer_fired, redraws, events_first, events_q, redraw_first, redraw_q,
                    requests, windows, native, handles, next_id, native_q, configured,
                    win_state, wake_token, bg_wake, n_sent, processed, destroy_seen,
                    late_seen, consumer, ev_serial, delivered, iter_log, iter_start,
                    n_wake_calls, n_proxy_cb, exit_called, drained, fired, run_iters,
                    failed, gone, rx_ret, timer_rm, wstate, stored, lock, upd, rd, closure,
                    hd_in, hd, hd_got>>

\* clear_exit: the exit code it stores
ClearExit == None

\* run_app_on_demand: clear_exit, then pump(None) until a pump reports Exit.
RunAppOnDemand ==
    /\ pc = "idle" /\ ~in_run
    /\ exit_code' = ClearExit
    /\ exit_called' = FALSE
    /\ exit_in_we' = FALSE
    /\ in_run' = TRUE
    /\ run_result' = "running"
    /\ cb' = "none"
    /\ UNCHANGED <<created, new_pc, new_attr, pc, loop_running, control_flow,
                    proxy_wake_flag, cause, timeout, timer, timer_fired, redraws,
                    events_first, events_q, redraw_first, redraw_q, requests, windows,
                    native, handles, next_id, native_q, configured, win_state, wake_token,
                    bg_wake, n_sent, processed, destroy_seen, late_seen, consumer,
                    ev_serial, delivered, iter_log, iter_start, n_wake_calls, n_proxy_cb,
                    status, drained, fired, run_iters, failed, gone, rx_ret, timer_rm,
                    wstate, stored, lock, upd, rd, closure, hd_in, hd, hd_got>>

\* run_app_on_demand when the main context cannot be acquired: the exit code
\* is cleared and Err(Os) returned, no pump is made.
RunAcquireFail ==
    /\ pc = "idle" /\ ~in_run
    /\ exit_code' = ClearExit
    /\ exit_called' = FALSE
    /\ exit_in_we' = FALSE
    /\ run_result' = "OsError"
    /\ cb' = "none"
    /\ UNCHANGED <<created, new_pc, new_attr, pc, in_run, loop_running, control_flow,
                    proxy_wake_flag, cause, timeout, timer, timer_fired, redraws,
                    events_first, events_q, redraw_first, redraw_q, requests, windows,
                    native, handles, next_id, native_q, configured, win_state, wake_token,
                    bg_wake, n_sent, processed, destroy_seen, late_seen, consumer,
                    ev_serial, delivered, iter_log, iter_start, n_wake_calls, n_proxy_cb,
                    status, drained, fired, run_iters, failed, gone, rx_ret, timer_rm,
                    wstate, stored, lock, upd, rd, closure, hd_in, hd, hd_got>>

\* A run that returns Ok whatever the pump reported.
RunResultOk(st) == "Ok"

\* run_app_on_demand: the match on the status of a pump: "running" stands
\* for `continue`.
RunResult(st) ==
    IF st = Exit(0) THEN "Ok"
    ELSE IF st.k = "Exit" THEN "ExitFailure"
    ELSE "running"

\* An iteration that offers can_create_surfaces whatever its cause.
AfterNewEventsAlways(c) == "can_create"

\* single_iteration: `if cause == StartCause::Init`, the step after new_events
AfterNewEvents(c) == IF c = CauseInit THEN "can_create" ELSE "drain"

\* single_iteration: app.new_events(cause)
NewEvents ==
    /\ pc = "new_events"
    /\ cb' = "new_events"
    /\ iter_log' = <<Entry("new_events", 0, cause.kind)>>
    /\ iter_start' = [flag |-> proxy_wake_flag,
                      redraw |-> Queued(redraw_first, redraw_q)]
    /\ run_iters' = Min(run_iters + 1, 2)
    /\ pc' = AfterNewEvents(cause)
    /\ UNCHANGED <<created, new_pc, new_attr, in_run, run_result, loop_running, exit_code,
                    control_flow, proxy_wake_flag, cause, timeout, timer, timer_fired,
                    redraws, events_first, events_q, redraw_first, redraw_q, requests,
                    windows, native, handles, next_id, native_q, configured, win_state,
                    wake_token, bg_wake, n_sent, processed, destroy_seen, late_seen,
                    consumer, ev_serial, delivered, n_wake_calls, n_proxy_cb, exit_in_we,
                    exit_called, status, drained, fired, failed, gone, rx_ret, timer_rm,
                    wstate, stored, lock, upd, rd, closure, hd_in, hd, hd_got>>

\* single_iteration: app.can_create_surfaces(), in the Init iteration only
CanCreateSurfaces ==
    /\ pc = "can_create"
    /\ Callback("can_create_surfaces", 0, "")
    /\ pc' = "drain"
    /\ UNCHANGED <<created, new_pc, new_attr, in_run, run_result, loop_running, exit_code,
                    control_flow, proxy_wake_flag, cause, timeout, timer, timer_fired,
                    redraws, events_first, events_q, redraw_first, redraw_q, requests,
                    windows, native, handles, next_id, native_q, configured, win_state,
                    wake_token, bg_wake, n_sent, processed, destroy_seen, late_seen,
                    consumer, ev_serial, delivered, iter_start, n_wake_calls, n_proxy_cb,
                    exit_in_we, exit_called, status, drained, fired, run_iters, failed,
                    gone, rx_ret, timer_rm, wstate, stored, lock, upd, rd, closure, hd_in,
                    hd, hd_got>>

\* drain_events: one turn of `while let Ok(event) = self.events_rx.try_recv()`
DrainEvents ==
    /\ pc = "drain"
    /\ LET r == TryRecv(events_first, events_q) IN
       /\ events_first' = r[2]
       /\ events_q' = r[3]
       /\ IF IsSome(r[1])
          THEN LET e == Unwrap(r[1]) IN
               /\ Callback(IF e.dev THEN "device_event" ELSE "window_event",
                           e.id, e.ev)
               /\ delivered' = Append(delivered, e.n)
               /\ gone' = IF e.ev = "Destroyed"
                          THEN [gone EXCEPT ![e.id] = Min(@ + 1, 2)]
                          ELSE gone
               /\ pc' = "drain"
          ELSE /\ cb' = "none"
               /\ pc' = "proxy"
               /\ UNCHANGED <<delivered, iter_log, gone>>
    /\ UNCHANGED <<created, new_pc, new_attr, in_run, run_result, loop_running, exit_code,
                    control_flow, proxy_wake_flag, cause, timeout, timer, timer_fired,
                    redraws, redraw_first, redraw_q, requests, windows, native, handles,
                    next_id, native_q, configured, win_state, wake_token, bg_wake, n_sent,
                    processed, destroy_seen, late_seen, consumer, ev_serial, iter_start,
                    n_wake_calls, n_proxy_cb, exit_in_we, exit_called, status, drained,
                    fired, run_iters, failed, rx_ret, timer_rm, wstate, stored, lock, upd,
                    rd, closure, hd_in, hd, hd_got>>

\* A load in place of the swap: the flag is left as it was.
ProxySwapLoad(flag) == flag

\* proxy_wake_flag.swap(false, AcqRel): the value left in the flag
ProxySwap(flag) == FALSE

\* single_iteration: the test-and-clear of the proxy wake flag
ProxyWake ==
    /\ pc = "proxy"
    /\ proxy_wake_flag' = ProxySwap(proxy_wake_flag)
    /\ IF proxy_wake_flag
       THEN Callback("proxy_wake_up", 0, "") /\ n_proxy_cb' = n_proxy_cb + 1
       ELSE cb' = "none" /\ UNCHANGED <<iter_log, n_proxy_cb>>
    /\ redraws' = <<>>
    /\ pc' = "collect"
    /\ UNCHANGED <<created, new_pc, new_attr, in_run, run_result, loop_running, exit_code,
                    control_flow, cause, timeout, timer, timer_fired, events_first,
                    events_q, redraw_first, redraw_q, requests, windows, native, handles,
                    next_id, native_q, configured, win_state, wake_token, bg_wake, n_sent,
                    processed, destroy_seen, late_seen, consumer, ev_serial, delivered,
                    iter_start, n_wake_calls, exit_in_we, exit_called, status, drained,
                    fired, run_iters, failed, gone, rx_ret, timer_rm, wstate, stored, lock,
                    upd, rd, closure, hd_in, hd, hd_got>>

\* A Vec::push in place of the HashSet::insert.
InsertPush(set, id) == Append(set, id)

\* HashSet::insert, the set kept as a duplicate-free sequence
Insert(set, id) ==
    IF \E i \in 1..Len(set) : set[i] = id THEN set ELSE Append(set, id)

\* single_iteration: one turn of `while let Ok(id) = self.redraw_rx.try_recv()`
CollectRedraws ==
    /\ pc = "collect"
    /\ LET r == TryRecv(redraw_first, redraw_q) IN
       /\ redraw_first' = r[2]
       /\ redraw_q' = r[3]
       /\ IF IsSome(r[1])
          THEN redraws' = Insert(redraws, Unwrap(r[1])) /\ pc' = "collect"
          ELSE pc' = "deliver" /\ UNCHANGED redraws
    /\ cb' = "none"
    /\ UNCHANGED <<created, new_pc, new_attr, in_run, run_result, loop_running, exit_code,
                    control_flow, proxy_wake_flag, cause, timeout, timer, timer_fired,
                    events_first, events_q, requests, windows, native, handles, next_id,
                    native_q, configured, win_state, wake_token, bg_wake, n_sent, processed,
                    destroy_seen, late_seen, consumer, ev_serial, delivered, iter_log,
                    iter_start, n_wake_calls, n_proxy_cb, exit_in_we, exit_called, status,
                    drained, fired, run_iters, failed, gone, rx_ret, timer_rm, wstate,
                    stored, lock, upd, rd, closure, hd_in, hd, hd_got>>

RemoveAt(s, i) == SubSeq(s, 1, i - 1) \o SubSeq(s, i + 1, Len(s))

\* single_iteration: one turn of `for id in redraws`, in the set's own order
DeliverRedraws ==
    /\ pc = "deliver"
    /\ IF redraws # <<>>
       THEN \E i \in 1..Len(redraws) :
               /\ Callback("window_event", redraws[i], "RedrawRequested")
               /\ redraws' = RemoveAt(redraws, i)
               /\ pc' = "deliver"
       ELSE /\ cb' = "none"
            /\ pc' = "about_to_wait"
            /\ UNCHANGED <<redraws, iter_log>>
    /\ UNCHANGED <<created, new_pc, new_attr, in_run, run_result, loop_running, exit_code,
                    control_flow, proxy_wake_flag, cause, timeout, timer, timer_fired,
                    events_first, events_q, redraw_first, redraw_q, requests, windows,
                    native, handles, next_id, native_q, configured, win_state, wake_token,
                    bg_wake, n_sent, processed, destroy_seen, late_seen, consumer,
                    ev_serial, delivered, iter_start, n_wake_calls, n_proxy_cb, exit_in_we,
                    exit_called, status, drained, fired, run_iters, failed, gone, rx_ret,
                    timer_rm, wstate, stored, lock, upd, rd, closure, hd_in, hd, hd_got>>

\* single_iteration: app.about_to_wait(); control returns to the caller
AboutToWait ==
    /\ pc = "about_to_wait"
    /\ Callback("about_to_wait", 0, "")
    /\ pc' = IF cause = CauseInit THEN "check_exiting" ELSE "pump_end"
    /\ UNCHANGED <<created, new_pc, new_attr, in_run, run_result, loop_running, exit_code,
                    control_flow, proxy_wake_flag, cause, timeout, timer, timer_fired,
                    redraws, events_first, events_q, redraw_first, redraw_q, requests,
                    windows, native, handles, next_id, native_q, configured, win_state,
                    wake_token, bg_wake, n_sent, processed, destroy_seen, late_seen,
                    consumer, ev_serial, delivered, iter_start, n_wake_calls, n_proxy_cb,
                    exit_in_we, exit_called, status, drained, fired, run_iters, failed,
                    gone, rx_ret, timer_rm, wstate, stored, lock, upd, rd, closure, hd_in,
                    hd, hd_got>>

\* A pump that goes to its return without polling.
AfterCheckExitingReturn(code) == "pump_end"

\* pump_app_events: `if !self.window_target.exiting()`, the step after it
AfterCheckExiting(code) == IF IsSome(code) THEN "pump_end" ELSE "hp1_events"

CheckExiting ==
    /\ pc = "check_exiting"
    /\ pc' = AfterCheckExiting(exit_code)
    /\ cb' = "none"
    /\ UNCHANGED <<created, new_pc, new_attr, in_run, run_result, loop_running, exit_code,
                    control_flow, proxy_wake_flag, cause, timeout, timer, timer_fired,
                    redraws, events_first, events_q, redraw_first, redraw_q, requests,
                    windows, native, handles, next_id, native_q, configured, win_state,
                    wake_token, bg_wake, n_sent, processed, destroy_seen, late_seen,
                    consumer, ev_serial, delivered, iter_log, iter_start, n_wake_calls,
                    n_proxy_cb, exit_in_we, exit_called, status, drained, fired, run_iters,
                    failed, gone, rx_ret, timer_rm, wstate, stored, lock, upd, rd, closure,
                    hd_in, hd, hd_got>>

\* ------------------------------------------------------------ has_pending
\* has_pending() is four reads joined by `||`, each a step of its own; k = 1
\* is the call before gtk_poll, k = 2 the call after it.
HpPc(k, part) ==
    CASE part = "events" -> IF k = 1 THEN "hp1_events" ELSE "hp2_events"
      [] part = "redraw" -> IF k = 1 THEN "hp1_redraw" ELSE "hp2_redraw"
      [] part = "flag" -> IF k = 1 THEN "hp1_flag" ELSE "hp2_flag"
      [] OTHER -> IF k = 1 THEN "hp1_gtk" ELSE "hp2_gtk"

\* What poll_events_with_timeout does with the value of has_pending():
\* before gtk_poll it fixes the effective timeout, after it it decides
\* between the early return and single_iteration(cause).
HasPendingIs(k, value) ==
    IF k = 1
    THEN /\ timeout' = EffectiveTimeout(value, timeout, control_flow)
         /\ fired' = (MinTimeout(timeout, ControlFlowTimeout(control_flow)) = Some(0))
         /\ pc' = "gtk_poll"
    ELSE /\ pc' = IF SkipIteration(value, cause, timeout) THEN "pump_end"
                  ELSE "new_events"
         /\ UNCHANGED <<timeout, fired>>

\* self.events_rx.has_incoming()
HpEvents(k) ==
    /\ pc = HpPc(k, "events")
    /\ LET r == HasIncoming(events_first, events_q) IN
       /\ events_first' = r[2]
       /\ events_q' = r[3]
       /\ IF r[1] THEN HasPendingIs(k, TRUE)
          ELSE pc' = HpPc(k, "redraw") /\ UNCHANGED <<timeout, fired>>
    /\ UNCHANGED <<created, new_pc, new_attr, cb, in_run, run_result, loop_running,
                    exit_code, control_flow, proxy_wake_flag, cause, timer, timer_fired,
                    redraws, redraw_first, redraw_q, requests, windows, native, handles,
                    next_id, native_q, configured, win_state, wake_token, bg_wake, n_sent,
                    processed, destroy_seen, late_seen, consumer, ev_serial, delivered,
                    iter_log, iter_start, n_wake_calls, n_proxy_cb, exit_in_we, exit_called,
                    status, drained, run_iters, failed, gone, rx_ret, timer_rm, wstate,
                    stored, lock, upd, rd, closure, hd_in, hd, hd_got>>

\* self.redraw_rx.has_incoming()
HpRedraw(k) ==
    /\ pc = HpPc(k, "redraw")
    /\ LET r == HasIncoming(redraw_first, redraw_q) IN
       /\ redraw_first' = r[2]
       /\ redraw_q' = r[3]
       /\ IF r[1] THEN HasPendingIs(k, TRUE)
          ELSE pc' = HpPc(k, "flag") /\ UNCHANGED <<timeout, fired>>
    /\ UNCHANGED <<created, new_pc, new_attr, cb, in_run, run_result, loop_running,
                    exit_code, control_flow, proxy_wake_flag, cause, timer, timer_fired,
                    redraws, events_first, events_q, requests, windows, native, handles,
                    next_id, native_q, configured, win_state, wake_token, bg_wake, n_sent,
                    processed, destroy_seen, late_seen, consumer, ev_serial, delivered,
                    iter_log, iter_start, n_wake_calls, n_proxy_cb, exit_in_we, exit_called,
                    status, drained, run_iters, failed, gone, rx_ret, timer_rm, wstate,
                    stored, lock, upd, rd, closure, hd_in, hd, hd_got>>

\* self.window_target.proxy_wake_flag.load(Acquire)
HpFlag(k) ==
    /\ pc = HpPc(k, "flag")
    /\ IF proxy_wake_flag THEN HasPendingIs(k, TRUE)
       ELSE pc' = HpPc(k, "gtk") /\ UNCHANGED <<timeout, fired>>
    /\ UNCHANGED <<created, new_pc, new_attr, cb, in_run, run_result, loop_running,
                    exit_code, control_flow, proxy_wake_flag, cause, timer, timer_fired,
                    redraws, events_first, events_q, redraw_first, redraw_q, requests,
                    windows, native, handles, next_id, native_q, configured, win_state,
                    wake_token, bg_wake, n_sent, processed, destroy_seen, late_seen,
                    consumer, ev_serial, delivered, iter_log, iter_start, n_wake_calls,
                    n_proxy_cb, exit_in_we, exit_called, status, drained, run_iters, failed,
                    gone, rx_ret, timer_rm, wstate, stored, lock, upd, rd, closure, hd_in,
                    hd, hd_got>>

\* gtk::events_pending(): one non-blocking poll of the main context, which
\* acknowledges a wakeup and reports whether a source is ready.
HpGtk(k) ==
    /\ pc = HpPc(k, "gtk")
    /\ wake_token' = FALSE
    /\ HasPendingIs(k, SourcesReady)
    /\ UNCHANGED <<created, new_pc, new_attr, cb, in_run, run_result, loop_running,
                    exit_code, control_flow, proxy_wake_flag, cause, timer, timer_fired,
                    redraws, events_first, events_q, redraw_first, redraw_q, requests,
                    windows, native, handles, next_id, native_q, configured, win_state,
                    bg_wake, n_sent, processed, destroy_seen, late_seen, consumer,
                    ev_serial, delivered, iter_log, iter_start, n_wake_calls, n_proxy_cb,
                    exit_in_we, exit_called, status, drained, run_iters, failed, gone,
                    rx_ret, timer_rm, wstate, stored, lock, upd, rd, closure, hd_in, hd,
                    hd_got>>

\* ---------------------------------------------------------------- gtk_poll
\* gtk_poll: the match on the timeout; a positive timeout installs the timer.
GtkPoll ==
    /\ pc = "gtk_poll"
    /\ IF timeout = Some(0)
       THEN pc' = "poll_drain" /\ UNCHANGED <<timer, timer_fired>>
       ELSE /\ pc' = "poll_block"
            /\ timer' = timeout
            /\ timer_fired' = FALSE
    /\ timer_rm' = <<>>
    /\ UNCHANGED <<created, new_pc, new_attr, cb, in_run, run_result, loop_running,
                    exit_code, control_flow, proxy_wake_flag, cause, timeout, redraws,
                    events_first, events_q, redraw_first, redraw_q, requests, windows,
                    native, handles, next_id, native_q, configured, win_state, wake_token,
                    bg_wake, n_sent, processed, destroy_seen, late_seen, consumer,
                    ev_serial, delivered, iter_log, iter_start, n_wake_calls, n_proxy_cb,
                    exit_in_we, exit_called, status, drained, fired, run_iters, failed,
                    gone, rx_ret, wstate, stored, lock, upd, rd, closure, hd_in, hd, hd_got>>

\* gtk::main_iteration_do(true): blocks until a source is ready or the
\* context is woken; the wakeup is acknowledged.  What is ready is
\* dispatched by the steps below.
PollBlock ==
    /\ pc = "poll_block"
    /\ wake_token \/ SourcesReady
    /\ wake_token' = FALSE
    /\ pc' = "poll_drain"
    /\ UNCHANGED <<created, new_pc, new_attr, cb, in_run, run_result, loop_running,
                    exit_code, control_flow, proxy_wake_flag, cause, timeout, timer,
                    timer_fired, redraws, events_first, events_q, redraw_first, redraw_q,
                    requests, windows, native, handles, next_id, native_q, configured,
                    win_state, bg_wake, n_sent, processed, destroy_seen, late_seen,
                    consumer, ev_serial, delivered, iter_log, iter_start, n_wake_calls,
                    n_proxy_cb, exit_in_we, exit_called, status, drained, fired, run_iters,
                    failed, gone, rx_ret, timer_rm, wstate, stored, lock, upd, rd, closure,
                    hd_in, hd, hd_got>>

\* The timeout source fires: it sets timer_fired and removes itself.
TimerFire ==
    /\ pc = "poll_drain"
    /\ TimerDue
    /\ timer_fired' = TRUE
    /\ fired' = TRUE
    /\ timer' = None
    /\ timer_rm' = Append(timer_rm, "fired")
    /\ wake_token' = FALSE
    /\ UNCHANGED <<created, new_pc, new_attr, pc, cb, in_run, run_result, loop_running,
                    exit_code, control_flow, proxy_wake_flag, cause, timeout, redraws,
                    events_first, events_q, redraw_first, redraw_q, requests, windows,
                    native, handles, next_id, native_q, configured, win_state, bg_wake,
                    n_sent, processed, destroy_seen, late_seen, consumer, ev_serial,
                    delivered, iter_log, iter_start, n_wake_calls, n_proxy_cb, exit_in_we,
                    exit_called, status, drained, run_iters, failed, gone, rx_ret, wstate,
                    stored, lock, upd, rd, closure, hd_in, hd, hd_got>>

\* A gtk_poll that removes its timer whether it fired or not.
RemoveTimerAlways(cell, t) == <<None, <<"removed">>>>

\* `if !timer_fired.get() { timer_source_id.remove(); }`: the timer left, and
\* the removal made
RemoveTimer(cell, t) == IF ~cell THEN <<None, <<"removed">>>> ELSE <<t, <<>>>>

\* `while gtk::events_pending()` finds nothing ready; after a positive
\* timeout a timer that has not fired is removed.
PollDone ==
    /\ pc = "poll_drain"
    /\ ~SourcesReady
    /\ wake_token' = FALSE
    /\ IF IsSome(timeout) /\ timeout # Some(0)
       THEN LET r == RemoveTimer(timer_fired, timer) IN
            /\ timer' = r[1]
            /\ timer_rm' = timer_rm \o r[2]
       ELSE UNCHANGED <<timer, timer_rm>>
    /\ timer_fired' = FALSE
    /\ drained' = TRUE
    /\ pc' = "cause"
    /\ UNCHANGED <<created, new_pc, new_attr, cb, in_run, run_result, loop_running,
                    exit_code, control_flow, proxy_wake_flag, cause, timeout, redraws,
                    events_first, events_q, redraw_first, redraw_q, requests, windows,
                    native, handles, next_id, native_q, configured, win_state, bg_wake,
                    n_sent, processed, destroy_seen, late_seen, consumer, ev_serial,
                    delivered, iter_log, iter_start, n_wake_calls, n_proxy_cb, exit_in_we,
                    exit_called, status, fired, run_iters, failed, gone, rx_ret, wstate,
                    stored, lock, upd, rd, closure, hd_in, hd, hd_got>>

\* poll_events_with_timeout: the start cause, from the control flow and the
\* time after the wait
ComputeCause ==
    /\ pc = "cause"
    /\ cause' = StartCauseOf(control_flow)
    /\ pc' = "hp2_events"
    /\ UNCHANGED <<created, new_pc, new_attr, cb, in_run, run_result, loop_running,
                    exit_code, control_flow, proxy_wake_flag, timeout, timer, timer_fired,
                    redraws, events_first, events_q, redraw_first, redraw_q, requests,
                    windows, native, handles, next_id, native_q, configured, win_state,
                    wake_token, bg_wake, n_sent, processed, destroy_seen, late_seen,
                    consumer, ev_serial, delivered, iter_log, iter_start, n_wake_calls,
                    n_proxy_cb, exit_in_we, exit_called, status, drained, fired, run_iters,
                    failed, gone, rx_ret, timer_rm, wstate, stored, lock, upd, rd, closure,
                    hd_in, hd, hd_got>>

\* A pump that reports Continue whatever the exit code.
PumpStatusContinue(code) == Continue

\* pump_app_events: the status returned
PumpStatus(code) == IF IsSome(code) THEN Exit(Unwrap(code)) ELSE Continue

PumpEnd ==
    /\ pc = "pump_end"
    /\ status' = PumpStatus(exit_code)
    /\ IF IsSome(exit_code)
       THEN loop_running' = FALSE /\ exit_called' = FALSE /\ run_iters' = 0
       ELSE UNCHANGED <<loop_running, exit_called, run_iters>>
    /\ IF in_run
       THEN /\ run_result' = RunResult(status')
            /\ in_run' = (run_result' = "running")
       ELSE UNCHANGED <<in_run, run_result>>
    /\ pc' = "idle"
    /\ cb' = "none"
    \* the locals of the call are gone
    /\ timeout' = None
    /\ cause' = CauseInit
    /\ iter_log' = <<>>
    /\ iter_start' = [flag |-> FALSE, redraw |-> <<>>]
    /\ fired' = FALSE
    /\ timer_rm' = <<>>
    /\ UNCHANGED <<created, new_pc, new_attr, exit_code, control_flow, proxy_wake_flag,
                    timer, timer_fired, redraws, events_first, events_q, redraw_first,
                    redraw_q, requests, windows, native, handles, next_id, native_q,
                    configured, win_state, wake_token, bg_wake, n_sent, processed,
                    destroy_seen, late_seen, consumer, ev_serial, delivered, n_wake_calls,
                    n_proxy_cb, exit_in_we, drained, failed, gone, rx_ret, wstate, stored,
                    lock, upd, rd, closure, hd_in, hd, hd_got>>

\* Time passes, while the main-loop thread waits in gtk_poll or is outside
\* the pump: every deadline and running timer comes one tick closer.
Tick ==
    /\ pc \in {"poll_block", "idle"}
    /\ \/ control_flow.kind = "WaitUntil" /\ control_flow.rem > 0
       \/ IsSome(timer) /\ Unwrap(timer) > 0
    /\ control_flow' = IF control_flow.kind = "WaitUntil" /\ control_flow.rem > 0
                       THEN WaitUntil(control_flow.rem - 1) ELSE control_flow
    /\ timer' = IF IsSome(timer) /\ Unwrap(timer) > 0
                THEN Some(Unwrap(timer) - 1) ELSE timer
    /\ UNCHANGED <<created, new_pc, new_attr, pc, cb, in_run, run_result, loop_running,
                    exit_code, proxy_wake_flag, cause, timeout, timer_fired, redraws,
                    events_first, events_q, redraw_first, redraw_q, requests, windows,
                    native, handles, next_id, native_q, configured, win_state, wake_token,
                    bg_wake, n_sent, processed, destroy_seen, late_seen, consumer,
                    ev_serial, delivered, iter_log, iter_start, n_wake_calls, n_proxy_cb,
                    exit_in_we, exit_called, status, drained, fired, run_iters, failed,
                    gone, rx_ret, timer_rm, wstate, stored, lock, upd, rd, closure, hd_in,
                    hd, hd_got>>

\* ------------------------------------------------ the window request channel
Request(id, kind, arg, n) == [id |-> id, kind |-> kind, arg |-> arg, n |-> n]

\* What the Window methods other than Drop can enqueue.
MethodRequests ==
    {<<"Title", t>> : t \in Titles} \cup
    {<<"Visible", "false">>, <<"Resizable", "false">>,
     <<"WithGtkWindow", "">>, <<"WithDefaultVbox", "">>}

\* A send that puts the request at the head of the channel.
SendFirst(q, r) == <<r>> \o q

\* send_blocking on window_requests_tx: the channel after the send
Send(q, r) == Append(q, r)

\* The receiver of the request channel is gone: the task that owns
\* window_requests_rx has ended.
RequestsRxGone == consumer = "panicked"

\* A send_blocking that enqueues into the closed channel.
EnqueueClosed(id, kind, arg) ==
    IF RequestsRxGone
    THEN /\ failed < MaxSends
         /\ failed' = failed + 1
         /\ requests' = Send(requests, Request(id, kind, arg, n_sent + 1))
         /\ UNCHANGED n_sent
    ELSE /\ requests' = Send(requests, Request(id, kind, arg, n_sent + 1))
         /\ n_sent' = n_sent + 1
         /\ UNCHANGED failed

\* `if let Err(e) = window_requests_tx.send_blocking(..) { warn!(..) }`: the
\* request is enqueued, or the channel is closed and the error is logged.
\* Every request enqueued carries its serial: its place in the order of sends.
Enqueue(id, kind, arg) ==
    IF RequestsRxGone
    THEN /\ failed < MaxSends
         /\ failed' = failed + 1
         /\ UNCHANGED <<requests, n_sent>>
    ELSE /\ requests' = Send(requests, Request(id, kind, arg, n_sent + 1))
         /\ n_sent' = n_sent + 1
         /\ UNCHANGED failed

\* A receive that takes the newest request instead of the oldest.
RecvNewest(q) == <<Last(q), SubSeq(q, 1, Len(q) - 1)>>

\* window_requests_rx.recv(): <<the request received, the channel after it>>
Recv(q) == <<Head(q), Tail(q)>>

\* The arms of `match request` for a registered window: the native window
\* after the request.
ApplyRequest(w, r) ==
    CASE r.kind = "Title" -> [w EXCEPT !.title = r.arg]
      [] r.kind = "Visible" -> [w EXCEPT !.visible = (r.arg = "true")]
      [] r.kind = "Resizable" -> [w EXCEPT !.resizable = (r.arg = "true")]
      [] r.kind = "WithGtkWindow" -> [w EXCEPT !.closures = @ + 1]
      [] r.kind = "WithDefaultVbox" -> [w EXCEPT !.closures = @ + 1]
      [] r.kind = "WireUpEvents" -> [w EXCEPT !.wired = @ + 1]
      [] OTHER -> w

MatchedKinds == {"Title", "Visible", "Resizable", "WithGtkWindow", "WithDefaultVbox",
                 "WireUpEvents"}

\* A Destroy that leaves the registry entry in place.
RemoveEntryKept(ws, id) == ws

\* windows.borrow_mut().remove(&id): the registry after it
RemoveEntry(ws, id) == ws \ {id}

\* A lookup that finds an entry for every id.
LookupAlways(ws, id) == TRUE

\* windows.borrow().get(&id): is there an entry
Lookup(ws, id) == id \in ws

\* A queued window event, numbered in the order of the sends on events_tx.
\* `size` is the size a SurfaceResized carries, 0 in every other event.
WindowEvent(id, ev, n) ==
    [dev |-> FALSE, id |-> id, ev |-> ev, n |-> n, size |-> 0]

\* The SurfaceResized events sent after event number `from` carry `size`.
Sized(q, from, size) ==
    [i \in 1..Len(q) |->
       IF q[i].n > from /\ q[i].ev = "SurfaceResized"
       THEN [q[i] EXCEPT !.size = size] ELSE q[i]]

\* The events `evs` sent on events_tx for window id, once per connected
\* handler: the channel after the sends.
SendEvents(q, id, evs, times, from) ==
    LET total == Len(evs) * times IN
    IF total = 0 THEN q
    ELSE q \o [i \in 1..total |->
                 WindowEvent(id, evs[((i - 1) % Len(evs)) + 1], from + i)]

\* The task that new_gtk spawned on the main context is polled for the first
\* time: handle_window_requests reaches its recv().await.
ConsumerFirstPoll ==
    /\ pc = "poll_drain"
    /\ consumer = "spawned"
    /\ consumer' = "running"
    /\ wake_token' = FALSE
    /\ UNCHANGED <<created, new_pc, new_attr, pc, cb, in_run, run_result, loop_running,
                    exit_code, control_flow, proxy_wake_flag, cause, timeout, timer,
                    timer_fired, redraws, events_first, events_q, redraw_first, redraw_q,
                    requests, windows, native, handles, next_id, native_q, configured,
                    win_state, bg_wake, n_sent, processed, destroy_seen, late_seen,
                    ev_serial, delivered, iter_log, iter_start, n_wake_calls, n_proxy_cb,
                    exit_in_we, exit_called, status, drained, fired, run_iters, failed,
                    gone, rx_ret, timer_rm, wstate, stored, lock, upd, rd, closure, hd_in,
                    hd, hd_got>>

\* handle_window_requests: one turn of `while let Ok(..) = recv().await`,
\* run by the main context while it dispatches its sources.
HandleWindowRequest ==
    /\ pc = "poll_drain"
    /\ ConsumerWoken
    /\ wake_token' = FALSE
    /\ LET got == Recv(requests)
           r == got[1]
           w == native[r.id]
           Done(effect) == processed' = Append(processed, r.n)
       IN
       /\ requests' = got[2]
       /\ destroy_seen' = IF r.kind = "Destroy" THEN destroy_seen \cup {r.id}
                          ELSE destroy_seen
       /\ late_seen' = IF r.id \in destroy_seen /\ r.kind # "Destroy"
                       THEN late_seen \cup {r.id}
                       ELSE late_seen
       /\ IF r.kind = "Destroy"
          THEN IF Lookup(windows, r.id)
               THEN /\ windows' = RemoveEntry(windows, r.id)
                    /\ native' = [native EXCEPT ![r.id].alive = FALSE]
                    \* window.destroy() emits `destroy` to the connected handlers
                    /\ events_q' = SendEvents(events_q, r.id, <<"Destroyed">>,
                                              w.wired, ev_serial)
                    /\ ev_serial' = ev_serial + w.wired
                    /\ Done("destroyed")
                    /\ UNCHANGED consumer
               ELSE /\ Done("dropped")
                    /\ UNCHANGED <<windows, native, events_q, ev_serial, consumer>>
          ELSE IF Lookup(windows, r.id)
               THEN IF r.kind \in MatchedKinds
                    THEN /\ native' = [native EXCEPT ![r.id] = ApplyRequest(w, r)]
                         /\ Done("applied")
                         /\ UNCHANGED <<windows, events_q, ev_serial, consumer>>
                    ELSE \* `_ => unreachable!()`
                         /\ consumer' = "panicked"
                         /\ Done("panic")
                         /\ UNCHANGED <<windows, native, events_q, ev_serial>>
               ELSE /\ Done("dropped")
                    /\ UNCHANGED <<windows, native, events_q, ev_serial, consumer>>
    /\ UNCHANGED <<created, new_pc, new_attr, pc, cb, in_run, run_result, loop_running,
                    exit_code, control_flow, proxy_wake_flag, cause, timeout, timer,
                    timer_fired, redraws, events_first, redraw_first, redraw_q, handles,
                    next_id, native_q, configured, win_state, bg_wake, n_sent, delivered,
                    iter_log, iter_start, n_wake_calls, n_proxy_cb, exit_in_we, exit_called,
                    status, drained, fired, run_iters, failed, gone, rx_ret, timer_rm,
                    wstate, stored, lock, upd, rd, closure, hd_in, hd, hd_got>>

\* The requests that carry a closure of the application.
ClosureKinds == {"WithGtkWindow", "WithDefaultVbox"}

\* The request at the head of the channel makes the consumer call a closure.
ClosureAtHead ==
    /\ requests # <<>>
    /\ Head(requests).kind \in ClosureKinds
    /\ Lookup(windows, Head(requests).id)

\* handle_window_requests, the first half of a turn that runs a closure: the
\* request is received, the window is found and `f(&window)` is entered.
ClosureCall ==
    /\ pc = "poll_drain"
    /\ ConsumerWoken
    /\ ClosureAtHead
    /\ closure = None
    /\ wake_token' = FALSE
    /\ requests' = Recv(requests)[2]
    /\ closure' = Some(Recv(requests)[1])
    /\ UNCHANGED <<created, new_pc, new_attr, pc, cb, in_run, run_result, loop_running,
                    exit_code, control_flow, proxy_wake_flag, cause, timeout, timer,
                    timer_fired, redraws, events_first, events_q, redraw_first, redraw_q,
                    windows, native, handles, next_id, native_q, configured, win_state,
                    bg_wake, n_sent, processed, destroy_seen, late_seen, consumer,
                    ev_serial, delivered, iter_log, iter_start, n_wake_calls, n_proxy_cb,
                    exit_in_we, exit_called, status, drained, fired, run_iters, failed,
                    gone, rx_ret, timer_rm, wstate, stored, lock, upd, rd, hd_in, hd, hd_got>>

\* The closure of the application panics: the task ends with it, and with
\* the task its receiver (the outcome in which the main context outlives
\* the panic; in the other the process ends here).
ClosurePanic ==
    /\ closure # None
    /\ consumer' = "panicked"
    /\ processed' = Append(processed, Unwrap(closure).n)
    /\ closure' = None
    /\ UNCHANGED <<created, new_pc, new_attr, pc, cb, in_run, run_result, loop_running,
                    exit_code, control_flow, proxy_wake_flag, cause, timeout, timer,
                    timer_fired, redraws, events_first, events_q, redraw_first, redraw_q,
                    requests, windows, native, handles, next_id, native_q, configured,
                    win_state, wake_token, bg_wake, n_sent, destroy_seen, late_seen,
                    ev_serial, delivered, iter_log, iter_start, n_wake_calls, n_proxy_cb,
                    exit_in_we, exit_called, status, drained, fired, run_iters, failed,
                    gone, rx_ret, timer_rm, wstate, stored, lock, upd, rd, hd_in, hd, hd_got>>

\* The second half: the closure returns and the turn ends.
ClosureReturn ==
    /\ closure # None
    /\ LET r == Unwrap(closure) IN
       /\ native' = [native EXCEPT ![r.id] = ApplyRequest(native[r.id], r)]
       /\ processed' = Append(processed, r.n)
    /\ closure' = None
    /\ UNCHANGED <<created, new_pc, new_attr, pc, cb, in_run, run_result, loop_running,
                    exit_code, control_flow, proxy_wake_flag, cause, timeout, timer,
                    timer_fired, redraws, events_first, events_q, redraw_first, redraw_q,
                    requests, windows, handles, next_id, native_q, configured, win_state,
                    wake_token, bg_wake, n_sent, destroy_seen, late_seen, consumer,
                    ev_serial, delivered, iter_log, iter_start, n_wake_calls, n_proxy_cb,
                    exit_in_we, exit_called, status, drained, fired, run_iters, failed,
                    gone, rx_ret, timer_rm, wstate, stored, lock, upd, rd, hd_in, hd, hd_got>>

\* ------------------------------------------------------------ Window
\* The application is running on the main-loop thread: inside a callback,
\* or between two pump calls (through EventLoop::window_target).
InApp == cb # "none" \/ (pc = "idle" /\ ~in_run)

NewWindow == [alive |-> TRUE, title |-> "", visible |-> TRUE, resizable |-> TRUE,
              wired |-> 0, closures |-> 0]

\* Window::new (through ActiveEventLoop::create_window): registry insert,
\* WireUpEvents enqueued, context woken.
CreateWindow ==
    /\ InApp
    /\ next_id <= MaxWindows
    /\ windows' = windows \cup {next_id}
    /\ native' = [native EXCEPT ![next_id] = NewWindow]
    /\ Enqueue(next_id, "WireUpEvents", "")
    /\ wake_token' = TRUE
    /\ handles' = handles \cup {next_id}
    /\ next_id' = next_id + 1
    /\ UNCHANGED <<created, new_pc, new_attr, pc, cb, in_run, run_result, loop_running,
                    exit_code, control_flow, proxy_wake_flag, cause, timeout, timer,
                    timer_fired, redraws, events_first, events_q, redraw_first, redraw_q,
                    native_q, configured, win_state, bg_wake, processed, destroy_seen,
                    late_seen, consumer, ev_serial, delivered, iter_log, iter_start,
                    n_wake_calls, n_proxy_cb, exit_in_we, exit_called, status, drained,
                    fired, run_iters, gone, rx_ret, timer_rm, wstate, stored, lock, upd, rd,
                    closure, hd_in, hd, hd_got>>

\* The EventLoop has been dropped, and with it events_rx and redraw_rx; the
\* windows, their handlers and the default main context outlive it.
LoopDropped == pc = "dropped"

\* The application drops the EventLoop between two pump calls.
DropLoop ==
    /\ pc = "idle" /\ ~in_run
    /\ new_pc[1] = "Ok"
    /\ new_pc' = [new_pc EXCEPT ![1] = "Dropped"]
    /\ pc' = "dropped"
    /\ cb' = "none"
    /\ UNCHANGED <<created, new_attr, in_run, run_result, loop_running, exit_code,
                    control_flow, proxy_wake_flag, cause, timeout, timer, timer_fired,
                    redraws, events_first, events_q, redraw_first, redraw_q, requests,
                    windows, native, handles, next_id, native_q, configured, win_state,
                    wake_token, bg_wake, n_sent, processed, destroy_seen, late_seen,
                    consumer, ev_serial, delivered, iter_log, iter_start, n_wake_calls,
                    n_proxy_cb, exit_in_we, exit_called, status, drained, fired, run_iters,
                    failed, gone, rx_ret, timer_rm, wstate, stored, lock, upd, rd, closure,
                    hd_in, hd, hd_got>>

\* set_title, set_visible, set_resizable, with_gtk_window, with_default_vbox
\* up to the send; the wakeup that follows is ContextWakeup.
WindowMethod(t, id, m) ==
    /\ ~bg_wake[t]
    /\ id \in handles
    /\ n_sent < MaxSends + next_id - 1
    /\ Enqueue(id, m[1], m[2])
    /\ bg_wake' = [bg_wake EXCEPT ![t] = TRUE]
    /\ UNCHANGED <<created, new_pc, new_attr, pc, cb, in_run, run_result, loop_running,
                    exit_code, control_flow, proxy_wake_flag, cause, timeout, timer,
                    timer_fired, redraws, events_first, events_q, redraw_first, redraw_q,
                    windows, native, handles, next_id, native_q, configured, win_state,
                    wake_token, processed, destroy_seen, late_seen, consumer, ev_serial,
                    delivered, iter_log, iter_start, n_wake_calls, n_proxy_cb, exit_in_we,
                    exit_called, status, drained, fired, run_iters, gone, rx_ret, timer_rm,
                    wstate, stored, lock, upd, rd, closure, hd_in, hd, hd_got>>

\* A drop that takes the entry out of the registry itself.
DropWindowRemoves(t, id) ==
    /\ ~bg_wake[t]
    /\ id \in handles
    /\ n_sent < MaxSends + next_id - 1
    /\ handles' = handles \ {id}
    /\ windows' = windows \ {id}
    /\ Enqueue(id, "Destroy", "")
    /\ bg_wake' = [bg_wake EXCEPT ![t] = TRUE]
    /\ UNCHANGED <<created, new_pc, new_attr, pc, cb, in_run, run_result, loop_running,
                    exit_code, control_flow, proxy_wake_flag, cause, timeout, timer,
                    timer_fired, redraws, events_first, events_q, redraw_first, redraw_q,
                    native, next_id, native_q, configured, win_state, wake_token, processed,
                    destroy_seen, late_seen, consumer, ev_serial, delivered, iter_log,
                    iter_start, n_wake_calls, n_proxy_cb, exit_in_we, exit_called, status,
                    drained, fired, run_iters, gone, rx_ret, timer_rm, wstate, stored, lock,
                    upd, rd, closure, hd_in, hd, hd_got>>

\* Drop for Window, up to the send
DropWindow(t, id) ==
    /\ ~bg_wake[t]
    /\ id \in handles
    /\ n_sent < MaxSends + next_id - 1
    /\ handles' = handles \ {id}
    /\ Enqueue(id, "Destroy", "")
    /\ bg_wake' = [bg_wake EXCEPT ![t] = TRUE]
    /\ UNCHANGED <<created, new_pc, new_attr, pc, cb, in_run, run_result, loop_running,
                    exit_code, control_flow, proxy_wake_flag, cause, timeout, timer,
                    timer_fired, redraws, events_first, events_q, redraw_first, redraw_q,
                    windows, native, next_id, native_q, configured, win_state, wake_token,
                    processed, destroy_seen, late_seen, consumer, ev_serial, delivered,
                    iter_log, iter_start, n_wake_calls, n_proxy_cb, exit_in_we, exit_called,
                    status, drained, fired, run_iters, gone, rx_ret, timer_rm, wstate,
                    stored, lock, upd, rd, closure, hd_in, hd, hd_got>>

\* Window::request_redraw, up to the send
RequestRedraw(t, id) ==
    /\ ~bg_wake[t]
    /\ id \in handles
    /\ IF LoopDropped
       THEN \* `let _ = self.redraw_tx.send(self.id)`: the error is ignored
            /\ failed < MaxSends
            /\ failed' = failed + 1
            /\ UNCHANGED redraw_q
       ELSE /\ Len(redraw_first) + Len(redraw_q) < MaxRedrawQ
            /\ redraw_q' = Append(redraw_q, id)
            /\ UNCHANGED failed
    /\ bg_wake' = [bg_wake EXCEPT ![t] = TRUE]
    /\ UNCHANGED <<created, new_pc, new_attr, pc, cb, in_run, run_result, loop_running,
                    exit_code, control_flow, proxy_wake_flag, cause, timeout, timer,
                    timer_fired, redraws, events_first, events_q, redraw_first, requests,
                    windows, native, handles, next_id, native_q, configured, win_state,
                    wake_token, n_sent, processed, destroy_seen, late_seen, consumer,
                    ev_serial, delivered, iter_log, iter_start, n_wake_calls, n_proxy_cb,
                    exit_in_we, exit_called, status, drained, fired, run_iters, gone,
                    rx_ret, timer_rm, wstate, stored, lock, upd, rd, closure, hd_in, hd,
                    hd_got>>

\* EventLoopProxy::wake_up, the store
WakeUp(t) ==
    /\ ~bg_wake[t]
    /\ n_wake_calls < MaxWakes
    /\ proxy_wake_flag' = TRUE
    /\ n_wake_calls' = n_wake_calls + 1
    /\ bg_wake' = [bg_wake EXCEPT ![t] = TRUE]
    /\ UNCHANGED <<created, new_pc, new_attr, pc, cb, in_run, run_result, loop_running,
                    exit_code, control_flow, cause, timeout, timer, timer_fired, redraws,
                    events_first, events_q, redraw_first, redraw_q, requests, windows,
                    native, handles, next_id, native_q, configured, win_state, wake_token,
                    n_sent, processed, destroy_seen, late_seen, consumer, ev_serial,
                    delivered, iter_log, iter_start, n_proxy_cb, exit_in_we, exit_called,
                    status, drained, fired, run_iters, failed, gone, rx_ret, timer_rm,
                    wstate, stored, lock, upd, rd, closure, hd_in, hd, hd_got>>

\* Window::request_redraw called by the application on the main-loop thread:
\* the send and the wakeup, before the driver takes its next step.
AppRequestRedraw(id) ==
    /\ InApp
    /\ id \in handles
    /\ Len(redraw_first) + Len(redraw_q) < MaxRedrawQ
    /\ redraw_q' = Append(redraw_q, id)
    /\ wake_token' = TRUE
    /\ UNCHANGED <<created, new_pc, new_attr, pc, cb, in_run, run_result, loop_running,
                    exit_code, control_flow, proxy_wake_flag, cause, timeout, timer,
                    timer_fired, redraws, events_first, events_q, redraw_first, requests,
                    windows, native, handles, next_id, native_q, configured, win_state,
                    bg_wake, n_sent, processed, destroy_seen, late_seen, consumer,
                    ev_serial, delivered, iter_log, iter_start, n_wake_calls, n_proxy_cb,
                    exit_in_we, exit_called, status, drained, fired, run_iters, failed,
                    gone, rx_ret, timer_rm, wstate, stored, lock, upd, rd, closure, hd_in,
                    hd, hd_got>>

\* EventLoopProxy::wake_up called by the application on the main-loop thread
AppWakeUp ==
    /\ InApp
    /\ n_wake_calls < MaxWakes
    /\ proxy_wake_flag' = TRUE
    /\ n_wake_calls' = n_wake_calls + 1
    /\ wake_token' = TRUE
    /\ UNCHANGED <<created, new_pc, new_attr, pc, cb, in_run, run_result, loop_running,
                    exit_code, control_flow, cause, timeout, timer, timer_fired, redraws,
                    events_first, events_q, redraw_first, redraw_q, requests, windows,
                    native, handles, next_id, native_q, configured, win_state, bg_wake,
                    n_sent, processed, destroy_seen, late_seen, consumer, ev_serial,
                    delivered, iter_log, iter_start, n_proxy_cb, exit_in_we, exit_called,
                    status, drained, fired, run_iters, failed, gone, rx_ret, timer_rm,
                    wstate, stored, lock, upd, rd, closure, hd_in, hd, hd_got>>

\* context.wakeup(), the last statement of each of the operations above
ContextWakeup(t) ==
    /\ bg_wake[t]
    /\ wake_token' = TRUE
    /\ bg_wake' = [bg_wake EXCEPT ![t] = FALSE]
    /\ UNCHANGED <<created, new_pc, new_attr, pc, cb, in_run, run_result, loop_running,
                    exit_code, control_flow, proxy_wake_flag, cause, timeout, timer,
                    timer_fired, redraws, events_first, events_q, redraw_first, redraw_q,
                    requests, windows, native, handles, next_id, native_q, configured,
                    win_state, n_sent, processed, destroy_seen, late_seen, consumer,
                    ev_serial, delivered, iter_log, iter_start, n_wake_calls, n_proxy_cb,
                    exit_in_we, exit_called, status, drained, fired, run_iters, failed,
                    gone, rx_ret, timer_rm, wstate, stored, lock, upd, rd, closure, hd_in,
                    hd, hd_got>>

\* A send on a clone of window_requests_tx that no Window method makes: any
\* request for the id of a window whose handle was dropped, so that the
\* request follows the Destroy of its id in the channel.
RawSend(t, id, kind, arg) ==
    /\ ~bg_wake[t]
    /\ id < next_id /\ id \notin handles
    /\ n_sent < MaxSends + next_id - 1
    /\ Enqueue(id, kind, arg)
    /\ bg_wake' = [bg_wake EXCEPT ![t] = TRUE]
    /\ UNCHANGED <<created, new_pc, new_attr, pc, cb, in_run, run_result, loop_running,
                    exit_code, control_flow, proxy_wake_flag, cause, timeout, timer,
                    timer_fired, redraws, events_first, events_q, redraw_first, redraw_q,
                    windows, native, handles, next_id, native_q, configured, win_state,
                    wake_token, processed, destroy_seen, late_seen, consumer, ev_serial,
                    delivered, iter_log, iter_start, n_wake_calls, n_proxy_cb, exit_in_we,
                    exit_called, status, drained, fired, run_iters, gone, rx_ret, timer_rm,
                    wstate, stored, lock, upd, rd, closure, hd_in, hd, hd_got>>

\* ------------------------------------------------- ActiveEventLoop, in the app
\* An exit() that stores a non-zero code.
ExitCodeOne == Some(1)

\* ActiveEventLoop::exit: the code it stores
ExitCode == Some(0)

AppExit ==
    /\ InApp
    /\ exit_code' = ExitCode
    /\ wake_token' = TRUE
    /\ exit_in_we' = (exit_in_we \/ cb = "window_event")
    /\ exit_called' = TRUE
    /\ UNCHANGED <<created, new_pc, new_attr, pc, cb, in_run, run_result, loop_running,
                    control_flow, proxy_wake_flag, cause, timeout, timer, timer_fired,
                    redraws, events_first, events_q, redraw_first, redraw_q, requests,
                    windows, native, handles, next_id, native_q, configured, win_state,
                    bg_wake, n_sent, processed, destroy_seen, late_seen, consumer,
                    ev_serial, delivered, iter_log, iter_start, n_wake_calls, n_proxy_cb,
                    status, drained, fired, run_iters, failed, gone, rx_ret, timer_rm,
                    wstate, stored, lock, upd, rd, closure, hd_in, hd, hd_got>>

\* ActiveEventLoop::set_control_flow
AppSetControlFlow(cf) ==
    /\ InApp
    /\ cf # control_flow
    /\ control_flow' = cf
    /\ wake_token' = TRUE
    /\ UNCHANGED <<created, new_pc, new_attr, pc, cb, in_run, run_result, loop_running,
                    exit_code, proxy_wake_flag, cause, timeout, timer, timer_fired, redraws,
                    events_first, events_q, redraw_first, redraw_q, requests, windows,
                    native, handles, next_id, native_q, configured, win_state, bg_wake,
                    n_sent, processed, destroy_seen, late_seen, consumer, ev_serial,
                    delivered, iter_log, iter_start, n_wake_calls, n_proxy_cb, exit_in_we,
                    exit_called, status, drained, fired, run_iters, failed, gone, rx_ret,
                    timer_rm, wstate, stored, lock, upd, rd, closure, hd_in, hd, hd_got>>

\* ------------------------------------------------------- native signals
Signals == {"delete_event", "configure_event", "focus_in_event", "focus_out_event",
            "draw"}

\* handle_wire_up_events: the window events a connected handler of the
\* signal sends on events_tx.
SignalEvents(sig) ==
    CASE sig = "delete_event" -> <<"CloseRequested">>
      [] sig = "configure_event" -> <<"Moved", "SurfaceResized">>
      [] sig = "focus_in_event" -> <<"Focused(true)">>
      [] sig = "focus_out_event" -> <<"Focused(false)">>
      [] OTHER -> <<>>

\* A set_surface_size that stores nothing.
SetSurfaceSizeDropped(current, size) == current

\* state.set_surface_size(surface_width, surface_height): the size left in
\* the shared state
SetSurfaceSize(current, size) == size

\* The places of the driver at which the main context is polled.
Polling == pc \in {"hp1_gtk", "hp2_gtk", "poll_block", "poll_drain"}

\* The windowing system has something for a live native window: the main
\* context learns of it when it is polled, and the event waits there until
\* gtk_poll dispatches it.
NativeEvent(id, sig) ==
    /\ Polling
    /\ native[id].alive
    /\ ev_serial + Len(native_q) < MaxEvents
    /\ sig = "draw" => Len(redraw_first) + Len(redraw_q) + Len(native_q) < MaxRedrawQ
    /\ native_q' = Append(native_q, [id |-> id, sig |-> sig])
    /\ UNCHANGED <<created, new_pc, new_attr, pc, cb, in_run, run_result, loop_running,
                    exit_code, control_flow, proxy_wake_flag, cause, timeout, timer,
                    timer_fired, redraws, events_first, events_q, redraw_first, redraw_q,
                    requests, windows, native, handles, next_id, configured, win_state,
                    wake_token, bg_wake, n_sent, processed, destroy_seen, late_seen,
                    consumer, ev_serial, delivered, iter_log, iter_start, n_wake_calls,
                    n_proxy_cb, exit_in_we, exit_called, status, drained, fired, run_iters,
                    failed, gone, rx_ret, timer_rm, wstate, stored, lock, upd, rd, closure,
                    hd_in, hd, hd_got>>

\* The main context dispatches a native event: gtk emits the signal on the
\* window, and the handlers that WireUpEvents connected run.
DispatchNative ==
    /\ pc = "poll_drain"
    /\ native_q # <<>>
    /\ wake_token' = FALSE
    /\ native_q' = Tail(native_q)
    /\ LET e == Head(native_q)
           w == native[e.id]
           times == IF w.alive THEN w.wired ELSE 0
       IN
       IF e.sig = "draw"
       THEN /\ redraw_q' = IF times = 0 THEN redraw_q
                          ELSE redraw_q \o [i \in 1..times |-> e.id]
            /\ UNCHANGED <<events_q, ev_serial, configured, win_state>>
       ELSE \* the configure handler stores the size of the event, then sends
            \* its events; the sizes of a window are numbered as they are
            \* handled
            LET size == configured[e.id] + 1
                handled == e.sig = "configure_event" /\ times > 0
            IN
            /\ configured' = IF handled THEN [configured EXCEPT ![e.id] = size]
                             ELSE configured
            /\ win_state' = IF handled
                            THEN [win_state EXCEPT
                                    ![e.id] = SetSurfaceSize(@, size)]
                            ELSE win_state
            /\ events_q' = Sized(SendEvents(events_q, e.id, SignalEvents(e.sig),
                                            times, ev_serial),
                                 ev_serial, size)
            /\ ev_serial' = ev_serial + Len(SignalEvents(e.sig)) * times
            /\ UNCHANGED redraw_q
    /\ UNCHANGED <<created, new_pc, new_attr, pc, cb, in_run, run_result, loop_running,
                    exit_code, control_flow, proxy_wake_flag, cause, timeout, timer,
                    timer_fired, redraws, events_first, redraw_first, requests, windows,
                    native, handles, next_id, bg_wake, n_sent, processed, destroy_seen,
                    late_seen, consumer, delivered, iter_log, iter_start, n_wake_calls,
                    n_proxy_cb, exit_in_we, exit_called, status, drained, fired, run_iters,
                    failed, gone, rx_ret, timer_rm, wstate, stored, lock, upd, rd, closure,
                    hd_in, hd, hd_got>>

\* After the EventLoop is dropped the main context is iterated once more
\* and gtk emits delete_event or draw on a wired window: the handler's send
\* on events_tx or redraw_tx fails, and the handler logs the error.
OrphanSignal(id, sig) ==
    /\ LoopDropped
    /\ native[id].alive /\ native[id].wired > 0
    /\ failed < MaxSends
    /\ failed' = failed + 1
    /\ UNCHANGED <<created, new_pc, new_attr, pc, cb, in_run, run_result, loop_running,
                    exit_code, control_flow, proxy_wake_flag, cause, timeout, timer,
                    timer_fired, redraws, events_first, events_q, redraw_first, redraw_q,
                    requests, windows, native, handles, next_id, native_q, configured,
                    win_state, wake_token, bg_wake, n_sent, processed, destroy_seen,
                    late_seen, consumer, ev_serial, delivered, iter_log, iter_start,
                    n_wake_calls, n_proxy_cb, exit_in_we, exit_called, status, drained,
                    fired, run_iters, gone, rx_ret, timer_rm, wstate, stored, lock, upd, rd,
                    closure, hd_in, hd, hd_got>>

\* ------------------------------------------------------- EventLoop::new
\* A guard that is read and never set.
GuardSwapLoad(old) == old

\* EVENT_LOOP_CREATED.swap(true, Relaxed): the value left in the guard
GuardSwap(old) == TRUE

\* A call is between its guard and its return.
InCall(c) == new_pc[c] \in {"thread_check", "new_gtk"}

\* EventLoop::new: the creation guard.  Calls made on the main thread follow
\* one another; calls on other threads run concurrently with every call.
NewGuard(c) ==
    /\ new_pc[c] = "start"
    /\ new_attr[c].main => \A d \in Callers : new_attr[d].main => ~InCall(d)
    /\ created' = GuardSwap(created)
    /\ new_pc' = [new_pc EXCEPT ![c] = IF created THEN "RecreationAttempt"
                                       ELSE "thread_check"]
    /\ UNCHANGED <<new_attr, pc, cb, in_run, run_result, loop_running, exit_code,
                    control_flow, proxy_wake_flag, cause, timeout, timer, timer_fired,
                    redraws, events_first, events_q, redraw_first, redraw_q, requests,
                    windows, native, handles, next_id, native_q, configured, win_state,
                    wake_token, bg_wake, n_sent, processed, destroy_seen, late_seen,
                    consumer, ev_serial, delivered, iter_log, iter_start, n_wake_calls,
                    n_proxy_cb, exit_in_we, exit_called, status, drained, fired, run_iters,
                    failed, gone, rx_ret, timer_rm, wstate, stored, lock, upd, rd, closure,
                    hd_in, hd, hd_got>>

\* A thread check that lets every call through.
NewThreadCheckSkipped(c) ==
    /\ new_pc[c] = "thread_check"
    /\ new_pc' = [new_pc EXCEPT ![c] = "new_gtk"]
    /\ UNCHANGED <<created, new_attr, pc, cb, in_run, run_result, loop_running, exit_code,
                    control_flow, proxy_wake_flag, cause, timeout, timer, timer_fired,
                    redraws, events_first, events_q, redraw_first, redraw_q, requests,
                    windows, native, handles, next_id, native_q, configured, win_state,
                    wake_token, bg_wake, n_sent, processed, destroy_seen, late_seen,
                    consumer, ev_serial, delivered, iter_log, iter_start, n_wake_calls,
                    n_proxy_cb, exit_in_we, exit_called, status, drained, fired, run_iters,
                    failed, gone, rx_ret, timer_rm, wstate, stored, lock, upd, rd, closure,
                    hd_in, hd, hd_got>>

\* EventLoop::new: `if !attributes.any_thread && !is_main_thread() { panic!() }`
NewThreadCheck(c) ==
    /\ new_pc[c] = "thread_check"
    /\ new_pc' = [new_pc EXCEPT ![c] =
                    IF ~new_attr[c].any_thread /\ ~new_attr[c].main
                    THEN "panic" ELSE "new_gtk"]
    /\ UNCHANGED <<created, new_attr, pc, cb, in_run, run_result, loop_running, exit_code,
                    control_flow, proxy_wake_flag, cause, timeout, timer, timer_fired,
                    redraws, events_first, events_q, redraw_first, redraw_q, requests,
                    windows, native, handles, next_id, native_q, configured, win_state,
                    wake_token, bg_wake, n_sent, processed, destroy_seen, late_seen,
                    consumer, ev_serial, delivered, iter_log, iter_start, n_wake_calls,
                    n_proxy_cb, exit_in_we, exit_called, status, drained, fired, run_iters,
                    failed, gone, rx_ret, timer_rm, wstate, stored, lock, upd, rd, closure,
                    hd_in, hd, hd_got>>

\* EventLoop::new: with_thread_default and new_gtk, which fail with an Os
\* error (context not acquired, gtk::init, register, no display) or succeed.
NewGtk(c, ok) ==
    /\ new_pc[c] = "new_gtk"
    /\ new_pc' = [new_pc EXCEPT ![c] = IF ok THEN "Ok" ELSE "OsError"]
    /\ UNCHANGED <<created, new_attr, pc, cb, in_run, run_result, loop_running, exit_code,
                    control_flow, proxy_wake_flag, cause, timeout, timer, timer_fired,
                    redraws, events_first, events_q, redraw_first, redraw_q, requests,
                    windows, native, handles, next_id, native_q, configured, win_state,
                    wake_token, bg_wake, n_sent, processed, destroy_seen, late_seen,
                    consumer, ev_serial, delivered, iter_log, iter_start, n_wake_calls,
                    n_proxy_cb, exit_in_we, exit_called, status, drained, fired, run_iters,
                    failed, gone, rx_ret, timer_rm, wstate, stored, lock, upd, rd, closure,
                    hd_in, hd, hd_got>>

\* The EventLoop that a call returned is dropped.
DropEventLoop(c) ==
    /\ new_pc[c] = "Ok"
    /\ new_pc' = [new_pc EXCEPT ![c] = "Dropped"]
    /\ UNCHANGED <<created, new_attr, pc, cb, in_run, run_result, loop_running, exit_code,
                    control_flow, proxy_wake_flag, cause, timeout, timer, timer_fired,
                    redraws, events_first, events_q, redraw_first, redraw_q, requests,
                    windows, native, handles, next_id, native_q, configured, win_state,
                    wake_token, bg_wake, n_sent, processed, destroy_seen, late_seen,
                    consumer, ev_serial, delivered, iter_log, iter_start, n_wake_calls,
                    n_proxy_cb, exit_in_we, exit_called, status, drained, fired, run_iters,
                    failed, gone, rx_ret, timer_rm, wstate, stored, lock, upd, rd, closure,
                    hd_in, hd, hd_got>>

\* ---------------------------------------------------- SharedWindowState
\* Scale factors are counted in halves: 2 is 1.0, 3 is 1.5.
Scales == 2..MaxScale
Sizes == 1..MaxSize
Positions == {0, 1}

\* A maybe_update that stores the value and reports no change.
MaybeUpdateSilent(current, new) == <<FALSE, new>>

\* A maybe_update that reports the change and keeps the old value.
MaybeUpdateKeep(current, new) == <<current # new, current>>

\* maybe_update: <<changed, the value left in *current>>
MaybeUpdate(current, new) ==
    IF current # new THEN <<TRUE, new>> ELSE <<FALSE, current>>

\* Logical -> physical for a u32 pixel: the product with the scale factor,
\* rounded half away from zero and cast with saturation.
ToPhysical(v, scale) ==
    LET twice == v * scale IN
    IF twice <= 0 THEN 0 ELSE (twice + 1) \div 2

\* surface_size(): the stored logical size converted with the stored scale
SurfaceSize(st) ==
    <<ToPhysical(st.surface_width, st.scale_factor),
      ToPhysical(st.surface_height, st.scale_factor)>>

\* outer_size()
OuterSize(st) ==
    <<ToPhysical(st.outer_width, st.scale_factor),
      ToPhysical(st.outer_height, st.scale_factor)>>

\* The last two updates, oldest first.
Recent(ops, op) == IF Len(ops) < 2 THEN Append(ops, op) ELSE <<ops[2], op>>

\* update_scale_factor, under the mutex
UpdateScaleFactor(scale) ==
    /\ wstate' = [wstate EXCEPT
                    !.scale_factor = MaybeUpdate(@, scale)[2]]
    /\ stored' = [stored EXCEPT !.scale = scale,
                                !.ops = Recent(@, "scale"),
                                !.args = <<scale>>,
                                !.ret = <<MaybeUpdate(wstate.scale_factor, scale)[1]>>]
    /\ UNCHANGED <<created, new_pc, new_attr, pc, cb, in_run, run_result, loop_running,
                    exit_code, control_flow, proxy_wake_flag, cause, timeout, timer,
                    timer_fired, redraws, events_first, events_q, redraw_first, redraw_q,
                    requests, windows, native, handles, next_id, native_q, configured,
                    win_state, wake_token, bg_wake, n_sent, processed, destroy_seen,
                    late_seen, consumer, ev_serial, delivered, iter_log, iter_start,
                    n_wake_calls, n_proxy_cb, exit_in_we, exit_called, status, drained,
                    fired, run_iters, failed, gone, rx_ret, timer_rm, lock, upd, rd,
                    closure, hd_in, hd, hd_got>>

\* update_position_and_size, under the mutex
UpdatePositionAndSize(sx, sy, sw, sh, ox, oy, ow, oh) ==
    /\ wstate' = [wstate EXCEPT
                    !.surface_x = MaybeUpdate(@, sx)[2],
                    !.surface_y = MaybeUpdate(@, sy)[2],
                    !.surface_width = MaybeUpdate(@, sw)[2],
                    !.surface_height = MaybeUpdate(@, sh)[2],
                    !.outer_x = MaybeUpdate(@, ox)[2],
                    !.outer_y = MaybeUpdate(@, oy)[2],
                    !.outer_width = MaybeUpdate(@, ow)[2],
                    !.outer_height = MaybeUpdate(@, oh)[2]]
    /\ stored' = [stored EXCEPT !.w = sw, !.h = sh,
                                !.ops = Recent(@, "size"),
                                !.args = <<sx, sy, sw, sh, ox, oy, ow, oh>>,
                                !.ret = <<MaybeUpdate(wstate.surface_width, sw)[1]
                                             \/ MaybeUpdate(wstate.surface_height, sh)[1],
                                          MaybeUpdate(wstate.outer_x, ox)[1]
                                             \/ MaybeUpdate(wstate.outer_y, oy)[1]>>]
    /\ UNCHANGED <<created, new_pc, new_attr, pc, cb, in_run, run_result, loop_running,
                    exit_code, control_flow, proxy_wake_flag, cause, timeout, timer,
                    timer_fired, redraws, events_first, events_q, redraw_first, redraw_q,
                    requests, windows, native, handles, next_id, native_q, configured,
                    win_state, wake_token, bg_wake, n_sent, processed, destroy_seen,
                    late_seen, consumer, ev_serial, delivered, iter_log, iter_start,
                    n_wake_calls, n_proxy_cb, exit_in_we, exit_called, status, drained,
                    fired, run_iters, failed, gone, rx_ret, timer_rm, lock, upd, rd,
                    closure, hd_in, hd, hd_got>>

\* WindowState::new: what the gtk window reports when the state is made
WindowStateNew(scale, x, w, h, ow) ==
    [scale_factor |-> scale, surface_x |-> 0, surface_y |-> 0,
     outer_x |-> x, outer_y |-> 0, surface_width |-> w, surface_height |-> h,
     outer_width |-> ow, outer_height |-> h]

\* The mutex of SharedWindowState is free, or held by the main-loop thread
\* or by one of the other threads.
Unlocked == 0 - 1
MainThread == 0

\* A lock() that does not wait for the holder.
AcquirableAlways(l) == TRUE

\* self.0.lock(): the caller goes on only when no thread holds the mutex
Acquirable(l) == l = Unlocked

\* The fields in the order update_position_and_size stores them, which is
\* the order of its parameters.
UpdFields ==
    <<"surface_x", "surface_y", "surface_width", "surface_height",
      "outer_x", "outer_y", "outer_width", "outer_height">>

\* The two fields each getter of a pair reads, in the order it reads them.
GetterFields ==
    [surface_position |-> <<"surface_x", "surface_y">>,
     outer_position |-> <<"outer_x", "outer_y">>,
     surface_size |-> <<"surface_width", "surface_height">>,
     outer_size |-> <<"outer_width", "outer_height">>]
Getters == DOMAIN GetterFields

Pair(st, g) == <<st[GetterFields[g][1]], st[GetterFields[g][2]]>>

NoUpdate == [k |-> 0, args |-> <<>>, old |-> <<>>]
NoGetter == [pc |-> "idle", g |-> "", a |-> 0, b |-> 0, seen |-> {}]

\* The state as the last update that returned left it.
Committed == IF upd.k = 0 THEN wstate ELSE upd.old

\* update_position_and_size is called in a signal handler of the main-loop
\* thread and takes the mutex.
UpdLock(args) ==
    /\ upd.k = 0
    /\ Acquirable(lock)
    /\ lock' = MainThread
    /\ upd' = [k |-> 1, args |-> args, old |-> wstate]
    /\ UNCHANGED <<created, new_pc, new_attr, pc, cb, in_run, run_result, loop_running,
                    exit_code, control_flow, proxy_wake_flag, cause, timeout, timer,
                    timer_fired, redraws, events_first, events_q, redraw_first, redraw_q,
                    requests, windows, native, handles, next_id, native_q, configured,
                    win_state, wake_token, bg_wake, n_sent, processed, destroy_seen,
                    late_seen, consumer, ev_serial, delivered, iter_log, iter_start,
                    n_wake_calls, n_proxy_cb, exit_in_we, exit_called, status, drained,
                    fired, run_iters, failed, gone, rx_ret, timer_rm, wstate, stored, rd,
                    closure, hd_in, hd, hd_got>>

\* One maybe_update of update_position_and_size.
UpdStep ==
    /\ upd.k \in 1..Len(UpdFields)
    /\ wstate' = [wstate EXCEPT ![UpdFields[upd.k]] = MaybeUpdate(@, upd.args[upd.k])[2]]
    /\ upd' = [upd EXCEPT !.k = @ + 1]
    /\ UNCHANGED <<created, new_pc, new_attr, pc, cb, in_run, run_result, loop_running,
                    exit_code, control_flow, proxy_wake_flag, cause, timeout, timer,
                    timer_fired, redraws, events_first, events_q, redraw_first, redraw_q,
                    requests, windows, native, handles, next_id, native_q, configured,
                    win_state, wake_token, bg_wake, n_sent, processed, destroy_seen,
                    late_seen, consumer, ev_serial, delivered, iter_log, iter_start,
                    n_wake_calls, n_proxy_cb, exit_in_we, exit_called, status, drained,
                    fired, run_iters, failed, gone, rx_ret, timer_rm, stored, lock, rd,
                    closure, hd_in, hd, hd_got>>

\* An update_position_and_size that returns with the mutex still held.
UpdUnlockKept ==
    /\ upd.k = Len(UpdFields) + 1
    /\ upd' = NoUpdate
    /\ rd' = [t \in Threads |->
                IF rd[t].pc = "idle" THEN rd[t]
                ELSE [rd[t] EXCEPT !.seen = @ \cup {Pair(wstate, rd[t].g)}]]
    /\ UNCHANGED <<created, new_pc, new_attr, pc, cb, in_run, run_result, loop_running,
                    exit_code, control_flow, proxy_wake_flag, cause, timeout, timer,
                    timer_fired, redraws, events_first, events_q, redraw_first, redraw_q,
                    requests, windows, native, handles, next_id, native_q, configured,
                    win_state, wake_token, bg_wake, n_sent, processed, destroy_seen,
                    late_seen, consumer, ev_serial, delivered, iter_log, iter_start,
                    n_wake_calls, n_proxy_cb, exit_in_we, exit_called, status, drained,
                    fired, run_iters, failed, gone, rx_ret, timer_rm, wstate, stored, lock,
                    closure, hd_in, hd, hd_got>>

\* update_position_and_size returns: the guard is dropped.  A getter that is
\* under way has now lived through one more update.
UpdUnlock ==
    /\ upd.k = Len(UpdFields) + 1
    /\ lock' = IF lock = MainThread THEN Unlocked ELSE lock
    /\ upd' = NoUpdate
    /\ rd' = [t \in Threads |->
                IF rd[t].pc = "idle" THEN rd[t]
                ELSE [rd[t] EXCEPT !.seen = @ \cup {Pair(wstate, rd[t].g)}]]
    /\ UNCHANGED <<created, new_pc, new_attr, pc, cb, in_run, run_result, loop_running,
                    exit_code, control_flow, proxy_wake_flag, cause, timeout, timer,
                    timer_fired, redraws, events_first, events_q, redraw_first, redraw_q,
                    requests, windows, native, handles, next_id, native_q, configured,
                    win_state, wake_token, bg_wake, n_sent, processed, destroy_seen,
                    late_seen, consumer, ev_serial, delivered, iter_log, iter_start,
                    n_wake_calls, n_proxy_cb, exit_in_we, exit_called, status, drained,
                    fired, run_iters, failed, gone, rx_ret, timer_rm, wstate, stored,
                    closure, hd_in, hd, hd_got>>

\* Thread t calls the getter g, which takes the mutex.
GetLock(t, g) ==
    /\ rd[t].pc = "idle"
    /\ Acquirable(lock)
    /\ lock' = t
    /\ rd' = [rd EXCEPT ![t] = [pc |-> "locked", g |-> g, a |-> 0, b |-> 0,
                                 seen |-> {Pair(Committed, g)}]]
    /\ UNCHANGED <<created, new_pc, new_attr, pc, cb, in_run, run_result, loop_running,
                    exit_code, control_flow, proxy_wake_flag, cause, timeout, timer,
                    timer_fired, redraws, events_first, events_q, redraw_first, redraw_q,
                    requests, windows, native, handles, next_id, native_q, configured,
                    win_state, wake_token, bg_wake, n_sent, processed, destroy_seen,
                    late_seen, consumer, ev_serial, delivered, iter_log, iter_start,
                    n_wake_calls, n_proxy_cb, exit_in_we, exit_called, status, drained,
                    fired, run_iters, failed, gone, rx_ret, timer_rm, wstate, stored, upd,
                    closure, hd_in, hd, hd_got>>

\* The getter reads the first field of its pair, then the second.
GetRead(t) ==
    /\ rd[t].pc \in {"locked", "read1"}
    /\ LET fields == GetterFields[rd[t].g] IN
       rd' = [rd EXCEPT ![t] =
                IF rd[t].pc = "locked"
                THEN [rd[t] EXCEPT !.pc = "read1", !.a = wstate[fields[1]]]
                ELSE [rd[t] EXCEPT !.pc = "read2", !.b = wstate[fields[2]]]]
    /\ UNCHANGED <<created, new_pc, new_attr, pc, cb, in_run, run_result, loop_running,
                    exit_code, control_flow, proxy_wake_flag, cause, timeout, timer,
                    timer_fired, redraws, events_first, events_q, redraw_first, redraw_q,
                    requests, windows, native, handles, next_id, native_q, configured,
                    win_state, wake_token, bg_wake, n_sent, processed, destroy_seen,
                    late_seen, consumer, ev_serial, delivered, iter_log, iter_start,
                    n_wake_calls, n_proxy_cb, exit_in_we, exit_called, status, drained,
                    fired, run_iters, failed, gone, rx_ret, timer_rm, wstate, stored, lock,
                    upd, closure, hd_in, hd, hd_got>>

\* The getter reads the scale factor, converts, drops the guard and returns.
GetReturn(t) ==
    /\ rd[t].pc = "read2"
    /\ lock' = IF lock = t THEN Unlocked ELSE lock
    /\ rd' = [rd EXCEPT ![t] = NoGetter]
    /\ UNCHANGED <<created, new_pc, new_attr, pc, cb, in_run, run_result, loop_running,
                    exit_code, control_flow, proxy_wake_flag, cause, timeout, timer,
                    timer_fired, redraws, events_first, events_q, redraw_first, redraw_q,
                    requests, windows, native, handles, next_id, native_q, configured,
                    win_state, wake_token, bg_wake, n_sent, processed, destroy_seen,
                    late_seen, consumer, ev_serial, delivered, iter_log, iter_start,
                    n_wake_calls, n_proxy_cb, exit_in_we, exit_called, status, drained,
                    fired, run_iters, failed, gone, rx_ret, timer_rm, wstate, stored, upd,
                    closure, hd_in, hd, hd_got>>

\* ----------------------------------------------------------- raw handles
\* A native pointer or an X11 window id; 0 is the null pointer, the id 0.
Pointers == 0..MaxPtr
Screens == {0, 1}
Backends == {"wayland", "x11", "broadway"}

\* What one construction meets: the GDK backend, the cargo features of the
\* build, whether Xlib could be loaded, whether the gtk window has a
\* gdk::Window, and what the native accessor returns.
HandleInputs ==
    [kind : {"display", "window"}, backend : Backends,
     wayland : BOOLEAN, x11 : BOOLEAN, xlib_open : BOOLEAN, gdk_window : BOOLEAN,
     ptr : Pointers, screen : Screens]

NoHandle == [variant |-> "none", ptr |-> 0, screen |-> 0]
Panicked == [variant |-> "panic", ptr |-> 0, screen |-> 0]
Unavailable == [variant |-> "Unavailable", ptr |-> 0, screen |-> 0]

\* OwnedDisplayHandle::new; `ptr` is what gdk_wayland_display_get_wl_display
\* or XOpenDisplay returns, `screen` what XDefaultScreen returns.
OwnedDisplayHandleNew(in) ==
    IF in.backend = "wayland"
    THEN IF in.wayland
         THEN IF in.ptr # 0
              THEN [variant |-> "Wayland", ptr |-> in.ptr, screen |-> 0]
              ELSE Unavailable
         ELSE Panicked
    ELSE IF in.backend = "x11"
    THEN IF in.x11
         THEN IF in.xlib_open
              THEN LET screen == IF in.ptr # 0 THEN in.screen ELSE 0
                   IN  IF in.ptr # 0
                       THEN [variant |-> "X11", ptr |-> in.ptr, screen |-> screen]
                       ELSE Unavailable
              ELSE Unavailable
         ELSE Panicked
    ELSE Unavailable

\* An OwnedWindowHandle::new that wraps the id 0.
OwnedWindowHandleNewUnchecked(in) ==
    IF in.backend = "wayland"
    THEN IF in.wayland
         THEN IF in.ptr # 0
              THEN [variant |-> "Wayland", ptr |-> in.ptr, screen |-> 0]
              ELSE Unavailable
         ELSE Panicked
    ELSE IF in.backend = "x11"
    THEN IF in.x11
         THEN [variant |-> "X11", ptr |-> in.ptr, screen |-> 0]
         ELSE Panicked
    ELSE Unavailable

\* OwnedWindowHandle::new; `ptr` is what gdk_wayland_window_get_wl_surface
\* or gdk_x11_window_get_xid returns.
OwnedWindowHandleNew(in) ==
    IF in.backend = "wayland"
    THEN IF in.wayland
         THEN IF in.ptr # 0
              THEN [variant |-> "Wayland", ptr |-> in.ptr, screen |-> 0]
              ELSE Unavailable
         ELSE Panicked
    ELSE IF in.backend = "x11"
    THEN IF in.x11
         THEN IF in.ptr = 0
              THEN Unavailable
              ELSE [variant |-> "X11", ptr |-> in.ptr, screen |-> 0]
         ELSE Panicked
    ELSE Unavailable

\* Result<_, HandleError>: Ok with a raw handle of one family, or the error.
RawOk(raw, ptr, screen) ==
    [ok |-> TRUE, raw |-> raw, ptr |-> ptr, screen |-> screen, err |-> "none"]
HandleErr(e) ==
    [ok |-> FALSE, raw |-> "none", ptr |-> 0, screen |-> 0, err |-> e]

\* A display_handle that hands out the pointer of every variant.
DisplayHandleUnwrap(h) ==
    CASE h.variant = "Wayland" -> RawOk("Wayland", h.ptr, 0)
      [] h.variant = "X11" -> RawOk("Xlib", h.ptr, h.screen)
      [] h.variant = "Unavailable" -> RawOk("Xlib", h.ptr, h.screen)

\* OwnedDisplayHandle::display_handle
DisplayHandle(h) ==
    CASE h.variant = "Wayland" -> RawOk("Wayland", h.ptr, 0)
      [] h.variant = "X11" -> RawOk("Xlib", h.ptr, h.screen)
      [] h.variant = "Unavailable" -> HandleErr("Unavailable")

\* OwnedWindowHandle::window_handle
WindowHandle(h) ==
    CASE h.variant = "Wayland" -> RawOk("Wayland", h.ptr, 0)
      [] h.variant = "X11" -> RawOk("Xlib", h.ptr, 0)
      [] h.variant = "Unavailable" -> HandleErr("Unavailable")

\* The owned handle is made: the display handle in EventLoop::new_gtk, the
\* window handle in Window::new, where a gtk window without a gdk::Window
\* gets Unavailable.  A panic leaves no handle to query.
HandleNew ==
    /\ hd = NoHandle
    /\ hd' = IF hd_in.kind = "display"
             THEN OwnedDisplayHandleNew(hd_in)
             ELSE IF hd_in.gdk_window
                  THEN OwnedWindowHandleNew(hd_in)
                  ELSE Unavailable
    /\ UNCHANGED <<created, new_pc, new_attr, pc, cb, in_run, run_result, loop_running,
                    exit_code, control_flow, proxy_wake_flag, cause, timeout, timer,
                    timer_fired, redraws, events_first, events_q, redraw_first, redraw_q,
                    requests, windows, native, handles, next_id, native_q, configured,
                    win_state, wake_token, bg_wake, n_sent, processed, destroy_seen,
                    late_seen, consumer, ev_serial, delivered, iter_log, iter_start,
                    n_wake_calls, n_proxy_cb, exit_in_we, exit_called, status, drained,
                    fired, run_iters, failed, gone, rx_ret, timer_rm, wstate, stored, lock,
                    upd, rd, closure, hd_in, hd_got>>

\* Any thread asks the owned handle for its raw handle.
HandleQuery ==
    /\ hd.variant \in {"Wayland", "X11", "Unavailable"}
    /\ Len(hd_got) < MaxQueries
    /\ hd_got' = Append(hd_got, IF hd_in.kind = "display"
                                 THEN DisplayHandle(hd)
                                 ELSE WindowHandle(hd))
    /\ UNCHANGED <<created, new_pc, new_attr, pc, cb, in_run, run_result, loop_running,
                    exit_code, control_flow, proxy_wake_flag, cause, timeout, timer,
                    timer_fired, redraws, events_first, events_q, redraw_first, redraw_q,
                    requests, windows, native, handles, next_id, native_q, configured,
                    win_state, wake_token, bg_wake, n_sent, processed, destroy_seen,
                    late_seen, consumer, ev_serial, delivered, iter_log, iter_start,
                    n_wake_calls, n_proxy_cb, exit_in_we, exit_called, status, drained,
                    fired, run_iters, failed, gone, rx_ret, timer_rm, wstate, stored, lock,
                    upd, rd, closure, hd_in, hd>>

\* The handle of the one event loop of the other specifications: a Wayland
\* display, never queried.
InitHandle ==
    /\ hd_in = [kind |-> "display", backend |-> "wayland", wayland |-> TRUE,
                x11 |-> TRUE, xlib_open |-> TRUE, gdk_window |-> TRUE,
                ptr |-> 1, screen |-> 0]
    /\ hd = OwnedDisplayHandleNew(hd_in)
    /\ hd_got = <<>>

\* ------------------------------------------------------- specifications
InitLoop ==
    /\ pc = "idle"
    /\ cb = "none"
    /\ in_run = FALSE
    /\ run_result = "none"
    /\ loop_running = FALSE
    /\ exit_code = None
    /\ control_flow = Wait
    /\ proxy_wake_flag = FALSE
    /\ cause = CauseInit
    /\ timeout = None
    /\ timer = None
    /\ timer_fired = FALSE
    /\ redraws = <<>>
    /\ events_first = None
    /\ events_q = <<>>
    /\ redraw_first = None
    /\ redraw_q = <<>>
    /\ requests = <<>>
    /\ windows = {}
    /\ native = [id \in WindowIds |-> NoWindow]
    /\ handles = {}
    /\ next_id = 1
    /\ native_q = <<>>
    /\ configured = [id \in WindowIds |-> 0]
    /\ win_state = [id \in WindowIds |-> 0]
    /\ wake_token = FALSE
    /\ bg_wake = [t \in Threads |-> FALSE]
    /\ n_sent = 0
    /\ processed = <<>>
    /\ destroy_seen = {}
    /\ late_seen = {}
    /\ consumer = "spawned"
    /\ ev_serial = 0
    /\ delivered = <<>>
    /\ iter_log = <<>>
    /\ iter_start = [flag |-> FALSE, redraw |-> <<>>]
    /\ n_wake_calls = 0
    /\ n_proxy_cb = 0
    /\ exit_in_we = FALSE
    /\ exit_called = FALSE
    /\ status = NoStatus
    /\ drained = FALSE
    /\ fired = FALSE
    /\ run_iters = 0
    /\ failed = 0
    /\ gone = [id \in WindowIds |-> 0]
    /\ rx_ret = NoCall
    /\ timer_rm = <<>>
    /\ lock = Unlocked
    /\ upd = NoUpdate
    /\ rd = [t \in Threads |-> NoGetter]
    /\ closure = None

\* The state after the first call of EventLoop::new has returned Ok.
Init ==
    /\ created = TRUE
    /\ new_pc = [c \in Callers |-> IF c = 1 THEN "Ok" ELSE "start"]
    /\ new_attr = [c \in Callers |-> [any_thread |-> FALSE, main |-> TRUE]]
    /\ InitLoop
    /\ wstate = WindowStateNew(2, 0, 1, 1, 1)
    /\ stored = [scale |-> 2, w |-> 1, h |-> 1, ops |-> <<>>,
                    args |-> <<>>, ret |-> <<>>]
    /\ InitHandle

\* The steps of a pump call after its first: the iteration, has_pending,
\* gtk_poll and the return.
PumpSteps ==
    \/ NewEvents
    \/ CanCreateSurfaces
    \/ DrainEvents
    \/ ProxyWake
    \/ CollectRedraws
    \/ DeliverRedraws
    \/ AboutToWait
    \/ CheckExiting
    \/ \E k \in {1, 2} : HpEvents(k) \/ HpRedraw(k) \/ HpFlag(k) \/ HpGtk(k)
    \/ GtkPoll
    \/ PollBlock
    \/ ConsumerFirstPoll
    \/ PollDone
    \/ ComputeCause
    \/ PumpEnd

\* The request channel and its consumer: windows are created, retitled and
\* dropped, and any thread sends any request for the id of a dropped window.
RawRequests ==
    MethodRequests \cup {<<"Destroy", "">>, <<"WireUpEvents", "">>}

NextChan ==
    \/ \E t \in {None, Some(0)} : PumpAppEvents(t)
    \/ PumpSteps
    \/ HandleWindowRequest
    \/ CreateWindow
    \/ \E t \in Threads, id \in WindowIds :
          \/ \E title \in Titles : WindowMethod(t, id, <<"Title", title>>)
          \/ DropWindow(t, id)
          \/ \E m \in RawRequests : RawSend(t, id, m[1], m[2])
    \/ \E t \in Threads : ContextWakeup(t)

SpecChan == Init /\ [][NextChan]_vars

\* EventLoop::new called NCallers times, from the main thread or another,
\* with any_thread set or not.
InitNew ==
    /\ created = FALSE
    /\ new_pc = [c \in Callers |-> "start"]
    /\ new_attr \in [Callers -> [any_thread : BOOLEAN, main : BOOLEAN]]
    /\ InitLoop
    /\ wstate = WindowStateNew(2, 0, 1, 1, 1)
    /\ stored = [scale |-> 2, w |-> 1, h |-> 1, ops |-> <<>>,
                    args |-> <<>>, ret |-> <<>>]
    /\ InitHandle

NextNew ==
    \E c \in Callers :
       \/ NewGuard(c)
       \/ NewThreadCheck(c)
       \/ \E ok \in BOOLEAN : NewGtk(c, ok)
       \/ DropEventLoop(c)

SpecNew == InitNew /\ [][NextNew]_vars

\* The driver with window events: windows are created and the windowing
\* system raises signals on them.
EventSignals == Signals \ {"draw"}

NextEvents ==
    \/ \E t \in {None, Some(0)} : PumpAppEvents(t)
    \/ PumpSteps
    \/ HandleWindowRequest
    \/ DispatchNative
    \/ cb = "can_create_surfaces" /\ CreateWindow
    \/ \E id \in WindowIds, sig \in EventSignals : NativeEvent(id, sig)

SpecEvents == Init /\ [][NextEvents]_vars

\* The receiver of the window events on its own: events are sent on the
\* channel while has_incoming and try_recv are called in any order.
RxSend(id, ev) ==
    /\ ev_serial < MaxEvents
    /\ events_q' = Append(events_q, WindowEvent(id, ev, ev_serial + 1))
    /\ ev_serial' = ev_serial + 1
    /\ UNCHANGED <<created, new_pc, new_attr, pc, cb, in_run, run_result, loop_running,
                    exit_code, control_flow, proxy_wake_flag, cause, timeout, timer,
                    timer_fired, redraws, events_first, redraw_first, redraw_q, requests,
                    windows, native, handles, next_id, native_q, configured, win_state,
                    wake_token, bg_wake, n_sent, processed, destroy_seen, late_seen,
                    consumer, delivered, iter_log, iter_start, n_wake_calls, n_proxy_cb,
                    exit_in_we, exit_called, status, drained, fired, run_iters, failed,
                    gone, rx_ret, timer_rm, wstate, stored, lock, upd, rd, closure, hd_in,
                    hd, hd_got>>

RxHasIncoming ==
    /\ LET r == HasIncoming(events_first, events_q) IN
       /\ events_first' = r[2]
       /\ events_q' = r[3]
       /\ rx_ret' = [op |-> "has_incoming", ok |-> r[1], item |-> None]
    /\ UNCHANGED <<created, new_pc, new_attr, pc, cb, in_run, run_result, loop_running,
                    exit_code, control_flow, proxy_wake_flag, cause, timeout, timer,
                    timer_fired, redraws, redraw_first, redraw_q, requests, windows, native,
                    handles, next_id, native_q, configured, win_state, wake_token, bg_wake,
                    n_sent, processed, destroy_seen, late_seen, consumer, ev_serial,
                    delivered, iter_log, iter_start, n_wake_calls, n_proxy_cb, exit_in_we,
                    exit_called, status, drained, fired, run_iters, failed, gone, timer_rm,
                    wstate, stored, lock, upd, rd, closure, hd_in, hd, hd_got>>

RxTryRecv ==
    /\ LET r == TryRecv(events_first, events_q) IN
       /\ events_first' = r[2]
       /\ events_q' = r[3]
       /\ rx_ret' = [op |-> "try_recv", ok |-> IsSome(r[1]), item |-> r[1]]
       /\ delivered' = IF IsSome(r[1]) THEN Append(delivered, Unwrap(r[1]).n)
                        ELSE delivered
    /\ UNCHANGED <<created, new_pc, new_attr, pc, cb, in_run, run_result, loop_running,
                    exit_code, control_flow, proxy_wake_flag, cause, timeout, timer,
                    timer_fired, redraws, redraw_first, redraw_q, requests, windows, native,
                    handles, next_id, native_q, configured, win_state, wake_token, bg_wake,
                    n_sent, processed, destroy_seen, late_seen, consumer, ev_serial,
                    iter_log, iter_start, n_wake_calls, n_proxy_cb, exit_in_we, exit_called,
                    status, drained, fired, run_iters, failed, gone, timer_rm, wstate,
                    stored, lock, upd, rd, closure, hd_in, hd, hd_got>>

NextReceiver ==
    \/ \E id \in WindowIds, ev \in {"CloseRequested", "Destroyed"} : RxSend(id, ev)
    \/ RxHasIncoming
    \/ RxTryRecv

SpecReceiver == Init /\ [][NextReceiver]_vars

\* The driver with exits: the user closes windows, the application exits
\* from any of its callbacks or between two pump calls, and the loop is
\* pumped or run again.
NextExit ==
    \/ \E t \in {None, Some(0)} : PumpAppEvents(t)
    \/ PumpAcquireFail
    \/ RunAppOnDemand
    \/ RunAcquireFail
    \/ PumpSteps
    \/ HandleWindowRequest
    \/ DispatchNative
    \/ cb = "can_create_surfaces" /\ CreateWindow
    \/ \E id \in WindowIds : NativeEvent(id, "delete_event")
    \/ AppExit

SpecExit == Init /\ [][NextExit]_vars

\* The driver with redraw requests: of other threads, and of the draw signal
\* of the windowing system.
NextRedraw ==
    \/ \E t \in {None, Some(0)} : PumpAppEvents(t)
    \/ PumpSteps
    \/ HandleWindowRequest
    \/ DispatchNative
    \/ cb = "can_create_surfaces" /\ CreateWindow
    \/ \E id \in WindowIds : NativeEvent(id, "draw")
    \/ \E t \in Threads :
          \/ ContextWakeup(t)
          \/ \E id \in WindowIds : RequestRedraw(t, id)

SpecRedraw == Init /\ [][NextRedraw]_vars

\* The driver with the proxy wake-ups of other threads.
NextProxy ==
    \/ \E t \in {None, Some(0)} : PumpAppEvents(t)
    \/ PumpSteps
    \/ \E t \in Threads : WakeUp(t) \/ ContextWakeup(t)

SpecProxy == Init /\ [][NextProxy]_vars

\* One thread: the application creates its windows in can_create_surfaces,
\* asks for redraws and wakes the loop in new_events, and the user closes
\* windows.
NextIter ==
    \/ \E t \in {None, Some(0)} : PumpAppEvents(t)
    \/ PumpSteps
    \/ HandleWindowRequest
    \/ DispatchNative
    \/ cb = "can_create_surfaces" /\ CreateWindow
    \/ \E id \in WindowIds : NativeEvent(id, "delete_event")
    \/ cb = "new_events" /\ \E id \in WindowIds : AppRequestRedraw(id)
    \/ cb = "new_events" /\ AppWakeUp

SpecIter == Init /\ [][NextIter]_vars

\* One thread, exiting in the middle of an iteration: the user closes
\* windows and the windowing system asks for redraws while the loop polls,
\* and the application wakes the loop in new_events and calls exit() in
\* new_events or in a window event.
NextMidExit ==
    \/ \E t \in {None, Some(0)} : PumpAppEvents(t)
    \/ PumpSteps
    \/ HandleWindowRequest
    \/ DispatchNative
    \/ cb = "can_create_surfaces" /\ CreateWindow
    \/ \E id \in WindowIds, sig \in {"delete_event", "draw"} : NativeEvent(id, sig)
    \/ cb = "new_events" /\ AppWakeUp
    \/ cb \in {"new_events", "window_event"} /\ AppExit

SpecMidExit == Init /\ [][NextMidExit]_vars

\* One thread, redrawing again and again: the application asks for the first
\* redraw in can_create_surfaces and for further ones while it is given
\* RedrawRequested or about_to_wait; the pump is called with every timeout.
NextRedrawAgain ==
    \/ \E t \in Timeouts : PumpAppEvents(t)
    \/ PumpSteps
    \/ TimerFire
    \/ Tick
    \/ HandleWindowRequest
    \/ cb = "can_create_surfaces" /\ CreateWindow
    \/ (cb \in {"can_create_surfaces", "about_to_wait"}
           \/ (cb = "window_event" /\ IsRedraw(Last(iter_log))))
          /\ \E id \in WindowIds : AppRequestRedraw(id)

SpecRedrawAgain == Init /\ [][NextRedrawAgain]_vars

\* The driver with time: the pump is called with every timeout; the
\* application creates its windows, and before it waits it sets the control
\* flow, wakes the proxy and asks for redraws; and time passes while the
\* loop waits.
NextTime ==
    \/ \E t \in Timeouts : PumpAppEvents(t)
    \/ PumpSteps
    \/ TimerFire
    \/ Tick
    \/ cb = "about_to_wait" /\ \E cf \in ControlFlows : AppSetControlFlow(cf)
    \/ cb = "about_to_wait" /\ AppWakeUp
    \/ cb = "about_to_wait" /\ \E id \in WindowIds : AppRequestRedraw(id)
    \/ cb = "can_create_surfaces" /\ CreateWindow
    \/ HandleWindowRequest

SpecTime == Init /\ [][NextTime]_vars

\* The driver under Wait with window requests of other threads: the pump is
\* called with every timeout, and titles are set while the loop runs, waits
\* or is between two pump calls.
NextWait ==
    \/ \E t \in Timeouts : PumpAppEvents(t)
    \/ PumpSteps
    \/ TimerFire
    \/ Tick
    \/ cb = "can_create_surfaces" /\ CreateWindow
    \/ HandleWindowRequest
    \/ \E t \in Threads :
          \/ ContextWakeup(t)
          \/ \E id \in WindowIds : WindowMethod(t, id, <<"Title", "A">>)

SpecWait == Init /\ [][NextWait]_vars

\* The same with its scheduling: the application keeps calling pump, the
\* main-loop thread and the producer threads keep running (a thread that has
\* sent goes on to its context.wakeup()), the main context dispatches what
\* is ready, and time passes.
FairWait ==
    /\ WF_vars(\E t \in Timeouts : PumpAppEvents(t))
    /\ WF_vars(PumpSteps)
    /\ WF_vars(TimerFire)
    /\ WF_vars(Tick)
    /\ WF_vars(HandleWindowRequest)
    /\ \A t \in Threads : WF_vars(ContextWakeup(t))

SpecWaitFair == Init /\ [][NextWait]_vars /\ FairWait

\* Redraws asked for again and again, with the same scheduling.
SpecRedrawAgainFair == Init /\ [][NextRedrawAgain]_vars /\ FairWait

\* Titles set between two pump calls: the application creates windows and
\* asks for redraws between the calls (through window_target) or in
\* can_create_surfaces, and another thread calls set_title while no pump
\* call is under way.
NextTitle ==
    \/ \E t \in {None, Some(0)} : PumpAppEvents(t)
    \/ PumpSteps
    \/ HandleWindowRequest
    \/ (pc = "idle" \/ cb = "can_create_surfaces") /\ CreateWindow
    \/ (pc = "idle" \/ cb = "can_create_surfaces")
          /\ \E id \in WindowIds : AppRequestRedraw(id)
    \/ \E t \in Threads :
          \/ ContextWakeup(t)
          \/ pc = "idle" /\ \E id \in WindowIds :
                WindowMethod(t, id, <<"Title", "A">>)

SpecTitle == Init /\ [][NextTitle]_vars

\* The state of one window: made from what the gtk window reports, then
\* updated by any thread with any scale factor, position and size.
InitState ==
    /\ created = TRUE
    /\ new_pc = [c \in Callers |-> IF c = 1 THEN "Ok" ELSE "start"]
    /\ new_attr = [c \in Callers |-> [any_thread |-> FALSE, main |-> TRUE]]
    /\ InitLoop
    /\ \E scale \in Scales, x \in Positions, w \in Sizes, h \in Sizes, ow \in Sizes :
          /\ wstate = WindowStateNew(scale, x, w, h, ow)
          /\ stored = [scale |-> scale, w |-> w, h |-> h, ops |-> <<>>,
                    args |-> <<>>, ret |-> <<>>]
    /\ InitHandle

NextState ==
    \/ \E scale \in Scales : UpdateScaleFactor(scale)
    \/ \E sx \in Positions, x \in Positions, w \in Sizes, h \in Sizes, ow \in Sizes :
          UpdatePositionAndSize(sx, 0, w, h, x, 0, ow, h)

SpecState == InitState /\ [][NextState]_vars

\* The windows and their methods: the application makes windows between
\* two pump calls or in can_create_surfaces, and any thread sets their
\* title, runs a closure on them and drops them.
NextWindows ==
    \/ \E t \in {None, Some(0)} : PumpAppEvents(t)
    \/ PumpSteps
    \/ HandleWindowRequest
    \/ (pc = "idle" \/ cb = "can_create_surfaces") /\ CreateWindow
    \/ \E t \in Threads :
          \/ ContextWakeup(t)
          \/ \E id \in WindowIds :
                \/ DropWindow(t, id)
                \/ WindowMethod(t, id, <<"Title", "A">>)
                \/ WindowMethod(t, id, <<"WithGtkWindow", "">>)

SpecWindows == Init /\ [][NextWindows]_vars

\* Windows dropped while redraws are asked for: the application creates its
\* windows in can_create_surfaces and may call exit() in about_to_wait; other
\* threads hold the handles, ask for redraws and drop the handles.
NextDrop ==
    \/ PumpAppEvents(None)
    \/ PumpSteps
    \/ HandleWindowRequest
    \/ cb = "can_create_surfaces" /\ CreateWindow
    \/ cb = "about_to_wait" /\ AppExit
    \/ \E t \in Threads :
          \/ ContextWakeup(t)
          \/ \E id \in WindowIds : DropWindow(t, id) \/ RequestRedraw(t, id)

SpecDrop == Init /\ [][NextDrop]_vars

\* Windows dropped by other threads while the application pumps: the
\* application creates its windows in can_create_surfaces and may call exit()
\* in about_to_wait.
NextDestroy ==
    \/ PumpAppEvents(None)
    \/ PumpSteps
    \/ HandleWindowRequest
    \/ cb = "can_create_surfaces" /\ CreateWindow
    \/ cb = "about_to_wait" /\ AppExit
    \/ \E t \in Threads :
          \/ ContextWakeup(t)
          \/ \E id \in WindowIds : DropWindow(t, id)

SpecDestroy == Init /\ [][NextDestroy]_vars

\* The same with the scheduling of FairWait.
SpecDestroyFair == Init /\ [][NextDestroy]_vars /\ FairWait

\* The state of one window under its mutex: the main-loop thread updates
\* position and size field by field and the scale factor, while the other
\* threads call the getters of the size and of the outer position.
NextSnapshot ==
    \/ \E w \in Sizes, h \in Sizes, x \in Positions, y \in Positions :
          UpdLock(<<0, 0, w, h, x, y, w, h>>)
    \/ UpdStep
    \/ UpdUnlock
    \/ \E scale \in Scales : Acquirable(lock) /\ upd.k = 0 /\ UpdateScaleFactor(scale)
    \/ \E t \in Threads :
          \/ \E g \in {"surface_size", "outer_position"} : GetLock(t, g)
          \/ GetRead(t)
          \/ GetReturn(t)

SpecSnapshot == Init /\ [][NextSnapshot]_vars

\* The state mutex beside the request channel: the consumer runs closures
\* step by step, the configure handler of a wired window updates the state
\* while the main context dispatches, and the other threads send closures
\* and call surface_size.  The main-loop thread does one thing at a time.
MainFree == upd.k = 0 /\ closure = None

NextLock ==
    \/ MainFree /\ \E t \in {None, Some(0)} : PumpAppEvents(t)
    \/ MainFree /\ PumpSteps
    \/ MainFree /\ ~ClosureAtHead /\ HandleWindowRequest
    \/ MainFree /\ pc = "idle" /\ CreateWindow
    \/ MainFree /\ ClosureCall
    \/ ClosureReturn
    \/ /\ MainFree /\ pc = "poll_drain"
       /\ \E id \in windows : native[id].wired > 0
       /\ \E w \in {1, 2} : UpdLock(<<0, 0, w, w, 0, 0, w, w>>)
    \/ UpdStep
    \/ UpdUnlock
    \/ \E t \in Threads :
          \/ ContextWakeup(t)
          \/ \E id \in WindowIds : WindowMethod(t, id, <<"WithGtkWindow", "">>)
          \/ GetLock(t, "surface_size")
          \/ GetRead(t)
          \/ GetReturn(t)

SpecLock == Init /\ [][NextLock]_vars

\* Sends that fail: a closure of the application panics inside the consumer,
\* or the application drops the EventLoop, and afterwards windows are made,
\* used, redrawn and dropped and their signals are emitted.
AfterFailure == RequestsRxGone \/ LoopDropped

NextFail ==
    \/ MainFree /\ PumpAppEvents(None)
    \/ MainFree /\ PumpSteps
    \/ MainFree /\ ~ClosureAtHead /\ HandleWindowRequest
    \/ MainFree /\ pc = "idle" /\ CreateWindow
    \/ MainFree /\ ClosureCall
    \/ ClosureReturn
    \/ ClosurePanic
    \/ MainFree /\ DropLoop
    \/ \E id \in WindowIds, sig \in {"delete_event", "draw"} : OrphanSignal(id, sig)
    \/ \E t \in Threads :
          \/ ContextWakeup(t)
          \/ \E id \in WindowIds :
                \/ WindowMethod(t, id, <<"WithGtkWindow", "">>)
                \/ AfterFailure /\ DropWindow(t, id)
                \/ LoopDropped /\ RequestRedraw(t, id)

SpecFail == Init /\ [][NextFail]_vars

\* The raw handles: one display or window handle is made on any backend,
\* with any features and any answer of the platform, and then queried.
InitHandles ==
    /\ created = TRUE
    /\ new_pc = [c \in Callers |-> IF c = 1 THEN "Ok" ELSE "start"]
    /\ new_attr = [c \in Callers |-> [any_thread |-> FALSE, main |-> TRUE]]
    /\ InitLoop
    /\ wstate = WindowStateNew(2, 0, 1, 1, 1)
    /\ stored = [scale |-> 2, w |-> 1, h |-> 1, ops |-> <<>>,
                    args |-> <<>>, ret |-> <<>>]
    /\ hd_in \in HandleInputs
    /\ hd = NoHandle
    /\ hd_got = <<>>

NextHandles ==
    \/ HandleNew
    \/ HandleQuery

SpecHandles == InitHandles /\ [][NextHandles]_vars

\* The whole program: every operation of the event loop, of its windows and
\* of its proxy, with every timeout and control flow, while time passes.
Next ==
    \/ \E t \in Timeouts : PumpAppEvents(t)
    \/ PumpAcquireFail
    \/ RunAppOnDemand
    \/ RunAcquireFail
    \/ PumpSteps
    \/ TimerFire
    \/ Tick
    \/ HandleWindowRequest
    \/ DispatchNative
    \/ CreateWindow
    \/ AppExit
    \/ AppWakeUp
    \/ \E cf \in ControlFlows : AppSetControlFlow(cf)
    \/ \E id \in WindowIds :
          \/ AppRequestRedraw(id)
          \/ \E sig \in Signals : NativeEvent(id, sig)
    \/ \E t \in Threads :
          \/ WakeUp(t)
          \/ ContextWakeup(t)
          \/ \E id \in WindowIds :
                \/ RequestRedraw(t, id)
                \/ DropWindow(t, id)
                \/ \E m \in MethodRequests : WindowMethod(t, id, m)
    \/ HandleQuery

Spec == Init /\ [][Next]_vars

\* ------------------------------------------------------------------ claims
Serials(q) == [i \in 1..Len(q) |-> q[i].n]
UpTo(n) == [i \in 1..n |-> i]

\* C1: the consumer handles the window requests in exactly the order of the
\* sends: the serials handled so far, followed by those still in the channel,
\* are 1, 2, .., n_sent; none is handled twice, skipped or overtaken.
C1_RequestsInSendOrder == processed \o Serials(requests) = UpTo(n_sent)

\* Three requests for window 1 (WireUpEvents, Title A, Title B) were sent and
\* handled, and the window carries the title sent last.
C1_Witness ==
    /\ processed = <<1, 2, 3>>
    /\ native[1].wired = 1
    /\ native[1].title = "B"

\* C2: when the consumer receives a request other than Destroy for an id
\* whose Destroy it has handled, the id is not in the registry, no native
\* window and no registry entry changes, and the consumer keeps running.
C2_Late ==
    /\ pc = "poll_drain"
    /\ ConsumerWoken
    /\ Head(requests).kind # "Destroy"
    /\ Head(requests).id \in destroy_seen

C2_DestroyThenMutate ==
    [][(C2_Late /\ requests' = Tail(requests))
         => /\ Head(requests).id \notin windows
            /\ native' = native
            /\ windows' = windows
            /\ consumer' = "running"]_vars

\* A request sent after the Destroy of its id was handled, the channel is
\* empty again and the consumer is still running.
C2_Witness ==
    /\ late_seen # {}
    /\ requests = <<>>
    /\ consumer = "running"

\* C3: at most one call of EventLoop::new gets past the creation guard; every
\* other call that has passed its first statement has RecreationAttempt,
\* whatever became of the call that got through.
PastGuard == {c \in Callers : new_pc[c] \notin {"start", "RecreationAttempt"}}

C3_OneCreation == Cardinality(PastGuard) <= 1

\* The event loop that one call returned has been dropped, and a later call
\* was refused all the same.
C3_Witness ==
    \E c, d \in Callers : new_pc[c] = "Dropped" /\ new_pc[d] = "RecreationAttempt"

\* C4: no iteration delivers RedrawRequested twice for one window, and an
\* iteration that has come to about_to_wait has delivered it exactly once
\* for every window with a redraw request queued when the iteration began.
RedrawCount(id) ==
    Cardinality({i \in 1..Len(iter_log) : IsRedraw(iter_log[i]) /\ iter_log[i].id = id})
IterationDone == iter_log # <<>> /\ Last(iter_log).cb = "about_to_wait"

C4_RedrawCoalesced ==
    \A id \in WindowIds :
       /\ RedrawCount(id) <= 1
       /\ (IterationDone /\ \E i \in 1..Len(iter_start.redraw) : iter_start.redraw[i] = id)
            => RedrawCount(id) = 1

\* Two redraw requests for window 1 were queued when an iteration began, and
\* the iteration is over.
C4_Witness ==
    /\ IterationDone
    /\ Len(iter_start.redraw) >= 2
    /\ iter_start.redraw[1] = 1 /\ iter_start.redraw[2] = 1
    /\ RedrawCount(1) = 1

\* C5: the queued events are handed to the application in the order of their
\* sends: the serials delivered so far, followed by those still held by the
\* receiver (the peeked head first), are 1, 2, .., ev_serial.
C5_EventsInSendOrder ==
    delivered \o Serials(Queued(events_first, events_q)) = UpTo(ev_serial)

\* has_pending has peeked the head of the queue while more events wait
\* behind it, after an earlier iteration delivered events.
C5_Witness ==
    /\ IsSome(events_first)
    /\ events_q # <<>>
    /\ delivered # <<>>

\* C6: the callbacks of an iteration come in stages that never go back:
\* new_events first and once, can_create_surfaces once and only in the Init
\* iteration, the queued events, proxy_wake_up at most once, the
\* RedrawRequested events, about_to_wait last and once; an iteration begins
\* only when the one before it is over, and every callback is in the
\* iteration's record.
Stage(e) ==
    CASE e.cb = "new_events" -> 1
      [] e.cb = "can_create_surfaces" -> 2
      [] e.cb = "proxy_wake_up" -> 4
      [] e.cb = "about_to_wait" -> 6
      [] IsRedraw(e) -> 5
      [] OTHER -> 3
StageCount(n) == Cardinality({i \in 1..Len(iter_log) : Stage(iter_log[i]) = n})

C6_CallbackOrder ==
    /\ pc = "new_events" => iter_log = <<>> \/ IterationDone
    /\ cb # "none" => iter_log # <<>> /\ Last(iter_log).cb = cb
    /\ iter_log # <<>> =>
         /\ Stage(iter_log[1]) = 1
         /\ \A n \in {1, 2, 4, 6} : StageCount(n) <= 1
         /\ \A i, j \in 1..Len(iter_log) :
               i < j => Stage(iter_log[i]) <= Stage(iter_log[j])
         /\ StageCount(2) = 1 => iter_log[1].ev = "Init"
         /\ (iter_log[1].ev = "Init" /\ Len(iter_log) >= 2) => Stage(iter_log[2]) = 2

\* An iteration with a queued event, a proxy wake-up and a redraw is over.
C6_Witness ==
    /\ Len(iter_log) = 5
    /\ [i \in 1..5 |-> Stage(iter_log[i])] = <<1, 3, 4, 5, 6>>

\* C7: there are never more proxy_wake_up callbacks than wake_up calls, no
\* iteration has two of them, and an iteration that began with the flag set
\* and has passed its test of the flag has exactly one.
PastProxy == pc \in {"collect", "deliver", "about_to_wait"} \/ IterationDone

C7_TestAndClear ==
    /\ n_proxy_cb <= n_wake_calls
    /\ StageCount(4) <= 1
    /\ (iter_log # <<>> /\ iter_start.flag /\ PastProxy) => StageCount(4) = 1

\* Two wake_up calls, one callback, and the flag is clear again.
C7_Witness ==
    /\ n_wake_calls = 2
    /\ n_proxy_cb = 1
    /\ ~proxy_wake_flag
    /\ pc = "idle"

\* C8: a wake_up call is not lost: the loop is never blocked in gtk_poll
\* without a timeout while the proxy wake flag is set and nothing is left
\* that would wake the main context.
C8_NoLostWake ==
    ~ /\ pc = "poll_block"
      /\ timer = None
      /\ proxy_wake_flag
      /\ ~wake_token
      /\ ~SourcesReady
      /\ \A t \in Threads : ~bg_wake[t]

\* C9: once the application has called exit() inside a window_event
\* callback, the pump call that ran the callback returns Exit(0), and so
\* does every pump call after it until clear_exit.
C9_ExitInWindowEvent == (pc = "idle" /\ exit_in_we) => status = Exit(0)

\* exit() was called inside a window_event callback and the pump has
\* returned.
C9_Witness ==
    /\ exit_in_we
    /\ pc = "idle"
    /\ status = Exit(0)
    /\ delivered # <<>>

\* C10: a run is clean: a pump call reports Exit only when exit() was called
\* since the last pump call that reported Exit.
C10_CleanRestart == (pc = "pump_end" /\ IsSome(exit_code)) => exit_called

\* C11: run_app_on_demand pumps with no caller timeout; it goes on while a
\* pump reports Continue, returns Ok exactly on Exit(0) and ExitFailure
\* exactly on Exit(code) with code # 0.  Its only other return is Err(Os),
\* made before any pump when the main context cannot be acquired.
RunPumpReturns == in_run /\ pc = "pump_end" /\ pc' = "idle"

C11_RunPumps ==
    in_run => /\ run_result = "running"
              /\ pc \in {"check_exiting", "hp1_events"} => timeout = None

C11_RunReturns ==
    /\ RunPumpReturns =>
          /\ status' = Continue => in_run' /\ run_result' = "running"
          /\ status' = Exit(0) => ~in_run' /\ run_result' = "Ok"
          /\ (status'.k = "Exit" /\ status'.code # 0)
                => ~in_run' /\ run_result' = "ExitFailure"
    /\ (run_result' # run_result /\ run_result' = "OsError")
          => pc = "idle" /\ ~in_run /\ UNCHANGED <<pc, status, in_run>>

C11_RunToCompletion == [][C11_RunPumps /\ C11_RunPumps' /\ C11_RunReturns]_vars

\* The statement without the Err(Os) return: a call of run_app_on_demand
\* returns only Ok or ExitFailure, after a pump of it has reported Exit.
C11_ReturnsOnlyOnExit ==
    [][(run_result' # run_result /\ run_result' # "running")
         => /\ run_result' \in {"Ok", "ExitFailure"}
            /\ status'.k = "Exit"]_vars

\* A run delivered a window event in which the application called exit(),
\* and returned Ok.
C11_Witness ==
    /\ run_result = "Ok"
    /\ status = Exit(0)
    /\ ~in_run
    /\ pc = "idle"
    /\ exit_in_we

\* C13: a pump call, with no caller timeout or with one, that has returned
\* Continue has finished a non-blocking drain pass of gtk_poll during that
\* call; and a call about to return with no exit code set has done so too.
C13_ContinueAfterDrain ==
    /\ (pc = "idle" /\ status = Continue) => drained
    /\ (pc = "pump_end" /\ exit_code = None) => drained

\* A pump(None) call of run_app_on_demand returned Continue after its drain
\* pass.
C13_Witness ==
    in_run /\ pc = "idle" /\ status = Continue /\ drained

\* ---- effective timeout
\* Pending in the words of the statement: a queued event, a redraw request
\* or a proxy wake.
QueuedPending ==
    \/ Queued(events_first, events_q) # <<>>
    \/ Queued(redraw_first, redraw_q) # <<>>
    \/ proxy_wake_flag

\* The step of poll_events_with_timeout that fixes the effective timeout; in
\* the state before it `timeout` is still the caller's.
TimeoutComputed ==
    pc \in {"hp1_events", "hp1_redraw", "hp1_flag", "hp1_gtk"} /\ pc' = "gtk_poll"

PolicyTimeout ==
    IF control_flow.kind = "Poll" THEN Some(0)
    ELSE IF control_flow.kind = "Wait" THEN None
    ELSE Some(control_flow.rem)

\* min with `no bound` as its identity
MinOrUnbounded(a, b) ==
    LET bounds == {Unwrap(x) : x \in {a, b} \ {None}} IN
    IF bounds = {} THEN None
    ELSE Some(CHOOSE m \in bounds : \A n \in bounds : m <= n)

\* C12: when the effective timeout is computed it is zero if a queued event,
\* a redraw request or a proxy wake is pending or a source of the native
\* main context is ready; otherwise it is min(caller timeout, policy
\* timeout) with `no bound` as the identity; under Poll it is always zero.
C12_EffectiveTimeout ==
    [][TimeoutComputed =>
         /\ timeout' = IF QueuedPending \/ SourcesReady THEN Some(0)
                       ELSE MinOrUnbounded(timeout, PolicyTimeout)
         /\ control_flow = Poll => timeout' = Some(0)]_vars

\* The statement with the queues and the flag as the only things pending.
C12_QueuedOnly ==
    [][TimeoutComputed =>
         timeout' = IF QueuedPending THEN Some(0)
                    ELSE MinOrUnbounded(timeout, PolicyTimeout)]_vars

\* With nothing pending, a pump with a timeout of one tick under Wait is
\* about to wait for one tick.
C12_Witness ==
    /\ pc = "gtk_poll" /\ timeout = Some(1) /\ control_flow = Wait
    /\ ~QueuedPending /\ ~SourcesReady

\* ---- start cause
AfterWait ==
    \/ pc \in {"hp2_events", "hp2_redraw", "hp2_flag", "hp2_gtk"}
    \/ pc = "new_events" /\ cause # CauseInit

\* C15: after the wait the start cause follows the control flow: Poll for
\* Poll; WaitCancelled without a resume time for Wait; for WaitUntil(d),
\* WaitCancelled with resume time d before d and ResumeTimeReached with d
\* from d on.  new_events gets Init in the first iteration of a run only.
C15_StartCause ==
    /\ AfterWait =>
         /\ control_flow.kind = "Poll" =>
               cause = [kind |-> "Poll", resume |-> None]
         /\ control_flow.kind = "Wait" =>
               cause = [kind |-> "WaitCancelled", resume |-> None]
         /\ (control_flow.kind = "WaitUntil" /\ control_flow.rem > 0) =>
               cause = [kind |-> "WaitCancelled", resume |-> Some("deadline")]
         /\ (control_flow.kind = "WaitUntil" /\ control_flow.rem = 0) =>
               cause = [kind |-> "ResumeTimeReached", resume |-> Some("deadline")]
    /\ pc = "new_events" => (cause = CauseInit <=> run_iters = 0)

\* Under Wait the caller's timeout ran out, and new_events is about to get
\* WaitCancelled.
C15_Witness ==
    /\ pc = "new_events" /\ control_flow = Wait /\ fired /\ run_iters > 0
    /\ cause = [kind |-> "WaitCancelled", resume |-> None]

\* C18: a request_redraw is not left undelivered while the loop sleeps: the
\* loop is never blocked in gtk_poll without a timeout while a redraw
\* request is queued and nothing is left that would wake the main context.
C18_RedrawWakes ==
    ~ /\ pc = "poll_block"
      /\ timer = None
      /\ Queued(redraw_first, redraw_q) # <<>>
      /\ ~wake_token
      /\ ~SourcesReady
      /\ \A t \in Threads : ~bg_wake[t]

\* C14: in a pump call that began no Init iteration, an iteration is begun
\* after the wait only if a queued event, a redraw request or a proxy wake
\* is pending, or the caller's timeout or the deadline has run out.
C14_NoSpuriousIteration ==
    [][(/\ pc \in {"hp2_events", "hp2_redraw", "hp2_flag", "hp2_gtk"}
        /\ pc' = "new_events"
        /\ iter_log = <<>>)
         => \/ QueuedPending
            \/ fired
            \/ cause.kind \in {"Poll", "ResumeTimeReached"}]_vars

\* ---- requests are applied
Applied(n) == \E i \in 1..Len(processed) : processed[i] = n

C16_TitleBeforeRedraw ==
    \A id \in WindowIds :
       (/\ cb = "window_event"
        /\ iter_log # <<>>
        /\ Last(iter_log) = Entry("window_event", id, "RedrawRequested")
        /\ \A t \in Threads : ~bg_wake[t])
         => ~ \E i \in 1..Len(requests) :
                 requests[i].id = id /\ requests[i].kind = "Title"

\* C20: surface_size() is the logical width and height last stored,
\* converted with the scale factor last stored, whatever the order of the
\* updates.
C20_SurfaceSize ==
    SurfaceSize(wstate) =
        <<ToPhysical(stored.w, stored.scale), ToPhysical(stored.h, stored.scale)>>

\* The scale factor was changed to 1.5 after the size was set to 2 x 1:
\* the surface size is 3 x 2.
C20_Witness ==
    /\ stored.ops = <<"size", "scale">>
    /\ stored.w = 2 /\ stored.h = 1 /\ stored.scale = 3
    /\ SurfaceSize(wstate) = <<3, 2>>

\* ---- configure
\* The step of drain_events that hands the application a SurfaceResized.
ResizedDelivered(e) ==
    /\ pc = "drain"
    /\ Queued(events_first, events_q) # <<>>
    /\ e = Head(Queued(events_first, events_q))
    /\ e.ev = "SurfaceResized"
    /\ cb' = "window_event"

\* C19: the size of every SurfaceResized event that is queued is the one in
\* the state of its window or an older one; and when the application is
\* given a SurfaceResized event, the state of that window holds the size of
\* the event or a later one.
C19_StateBeforeEvent ==
    /\ [](\A i \in 1..Len(Queued(events_first, events_q)) :
            LET e == Queued(events_first, events_q)[i] IN
            e.ev = "SurfaceResized" => win_state[e.id] >= e.size /\ e.size > 0)
    /\ [][\A i \in 1..Len(Queued(events_first, events_q)) :
            LET e == Queued(events_first, events_q)[i] IN
            ResizedDelivered(e) => win_state'[e.id] >= e.size /\ e.size > 0]_vars

\* The application is given the SurfaceResized of the first configure of a
\* window whose state already holds the size of the second.
C19_Witness ==
    /\ cb = "window_event"
    /\ iter_log # <<>>
    /\ Last(iter_log) = Entry("window_event", 1, "SurfaceResized")
    /\ delivered = <<1, 2>>
    /\ win_state[1] = 2

\* ---- EventLoop::new
\* C28: the creation guard is set only once a construction has succeeded:
\* while it is set, some call has returned an event loop or is still under
\* way.
C28_SetOnSuccess ==
    created => \E c \in Callers : new_pc[c] \in {"thread_check", "new_gtk", "Ok", "Dropped"}

\* A call made off the main thread without any_thread.
OffMain(c) == ~new_attr[c].any_thread /\ ~new_attr[c].main

\* C29: a call made off the main thread without any_thread never reaches
\* native initialisation and never returns an event loop or an Os error: it
\* returns RecreationAttempt when the guard was already set, and panics
\* otherwise.  Every other call passes the thread check without a panic.
C29_ThreadCheck ==
    \A c \in Callers :
       /\ OffMain(c) => new_pc[c] \in {"start", "RecreationAttempt", "thread_check", "panic"}
       /\ ~OffMain(c) => new_pc[c] # "panic"

\* The statement without the guard: such a call returns no error value.
C29_NoErrorValue ==
    \A c \in Callers :
       OffMain(c) => new_pc[c] \in {"start", "thread_check", "panic"}

\* A call off the main thread without any_thread has panicked, and a call
\* off the main thread with any_thread was the one refused by the guard.
C29_Witness ==
    \E c, d \in Callers :
       /\ OffMain(c) /\ new_pc[c] = "panic"
       /\ new_attr[d].any_thread /\ ~new_attr[d].main
       /\ new_pc[d] = "RecreationAttempt"

\* ---- the registry
\* The step in which the consumer receives a request of this kind for id.
ConsumerTakes(kind, id) ==
    /\ pc = "poll_drain"
    /\ requests # <<>>
    /\ Head(requests).id = id /\ Head(requests).kind = kind
    /\ requests' = Tail(requests)
    /\ Len(processed') = Len(processed) + 1

\* The step in which Window::new makes the window id.
WindowMade(id) == id = next_id /\ next_id' = next_id + 1 /\ id \in handles'

\* C23: the registry holds the ids of the live windows, each once; an entry
\* appears when its window is made and at no other time; it disappears when
\* the consumer receives a Destroy for its id and at no other time; and a
\* Destroy for an id without an entry leaves the registry, the native
\* windows and the event channel as they were.
C23_RegistryLifecycle ==
    /\ [](windows = {id \in WindowIds : native[id].alive})
    /\ [][\A id \in WindowIds :
            /\ (id \notin windows /\ id \in windows') => WindowMade(id)
            /\ (id \in windows /\ id \notin windows') => ConsumerTakes("Destroy", id)
            /\ (ConsumerTakes("Destroy", id) /\ id \in windows) => id \notin windows'
            /\ (ConsumerTakes("Destroy", id) /\ id \notin windows) =>
                  UNCHANGED <<windows, native, events_q, ev_serial>>]_vars

\* The consumer has received WireUpEvents and two Destroy requests for
\* window 1, and nothing else.
C23_Witness ==
    /\ Len(processed) = 3 /\ requests = <<>>
    /\ destroy_seen = {1} /\ late_seen = {}
    /\ native[1] = [NewWindow EXCEPT !.alive = FALSE, !.wired = 1]
    /\ 1 \notin windows

\* C24: the registry changes in two kinds of step only, both on the
\* main-loop thread: Window::new inserts the id it makes, and the consumer
\* removes an id when it receives its Destroy.
C24_RegistryWriters ==
    [][windows' # windows =>
         \/ \E id \in WindowIds : WindowMade(id) /\ windows' = windows \cup {id}
         \/ \E id \in WindowIds :
               ConsumerTakes("Destroy", id) /\ windows' = windows \ {id}]_vars

\* The statement with the consumer as the only writer.
C24_ConsumerOnly ==
    [][windows' # windows =>
         \E id \in WindowIds :
            ConsumerTakes("Destroy", id) /\ windows' = windows \ {id}]_vars

\* A window was made and its entry removed again, while another thread is
\* in the middle of a call.
C24_Witness ==
    /\ next_id = 2 /\ windows = {} /\ destroy_seen = {1}
    /\ \E t \in Threads : bg_wake[t]

\* ---- WireUpEvents
\* The WireUpEvents requests for id that wait in the channel.
WireUpsQueued(id) ==
    Cardinality({i \in 1..Len(requests) :
                   requests[i].id = id /\ requests[i].kind = "WireUpEvents"})

\* C25: for every window made, exactly one WireUpEvents was enqueued: it
\* waits in the channel ahead of every other request for that window, or
\* it has been applied, once.  It is in the channel when Window::new
\* returns, and until it is applied the native window is as Window::new
\* made it: no other request has been applied to it.
C25_WireUpOnceAndFirst ==
    /\ [](\A id \in WindowIds :
            /\ id < next_id => native[id].wired + WireUpsQueued(id) = 1
            /\ id >= next_id => native[id].wired + WireUpsQueued(id) = 0
            /\ (id < next_id /\ native[id].wired = 0) =>
                  /\ native[id] = NewWindow
                  /\ \A i, j \in 1..Len(requests) :
                        (requests[i].id = id /\ requests[j].id = id
                           /\ requests[j].kind = "WireUpEvents") => j <= i)
    /\ [][\A id \in WindowIds :
            WindowMade(id) =>
               /\ id \in windows'
               /\ Last(requests') = Request(id, "WireUpEvents", "", n_sent')]_vars

\* The callbacks of window 1 are installed and a title was set after that,
\* the Title request having been enqueued while WireUpEvents still waited.
C25_Witness ==
    /\ native[1].wired = 1 /\ native[1].title = "A"
    /\ processed = <<1, 2>>
    /\ pc = "poll_drain" /\ drained = FALSE /\ run_iters = 1

\* C27: OwnedDisplayHandle::new and OwnedWindowHandle::new map the backend
\* and the answer of the platform to a variant: on Wayland a non-null pointer
\* gives Wayland and a null one Unavailable; on X11 a non-null display or a
\* non-zero window id gives X11, a null or zero one or an Xlib that cannot be
\* loaded gives Unavailable; any other backend gives Unavailable; and a
\* backend whose feature is not compiled in panics instead.
NewCalled ==
    hd # NoHandle /\ (hd_in.kind = "window" => hd_in.gdk_window)
FeatureMissing ==
    \/ hd_in.backend = "wayland" /\ ~hd_in.wayland
    \/ hd_in.backend = "x11" /\ ~hd_in.x11
NativeFound ==
    hd_in.ptr # 0 /\ (hd_in.kind = "display" /\ hd_in.backend = "x11" => hd_in.xlib_open)

C27_ConstructionMapping ==
    NewCalled =>
       /\ (hd = Panicked) <=> FeatureMissing
       /\ ~FeatureMissing /\ hd_in.backend = "wayland" =>
             /\ NativeFound => hd.variant = "Wayland" /\ hd.ptr = hd_in.ptr
             /\ ~NativeFound => hd = Unavailable
       /\ ~FeatureMissing /\ hd_in.backend = "x11" =>
             /\ NativeFound => hd.variant = "X11" /\ hd.ptr = hd_in.ptr
             /\ NativeFound /\ hd_in.kind = "display" => hd.screen = hd_in.screen
             /\ ~NativeFound => hd = Unavailable
       /\ hd_in.backend \notin {"wayland", "x11"} => hd = Unavailable

\* A window handle made on X11 from the window id 0.
C27_Witness ==
    /\ hd_in.kind = "window" /\ hd_in.gdk_window
    /\ hd_in.backend = "x11" /\ hd_in.x11 /\ hd_in.ptr = 0
    /\ hd = Unavailable

\* C26: a display_handle or window_handle query on an Unavailable handle
\* returns the error HandleError::Unavailable, never a panic and never a null
\* pointer; on a Wayland or an X11 handle it returns Ok with the raw handle
\* of that family; and every query on one handle gives the same result.
Family(variant) == IF variant = "X11" THEN "Xlib" ELSE variant

C26_HandleQueries ==
    \A i \in 1..Len(hd_got) :
       /\ hd.variant = "Unavailable" => hd_got[i] = HandleErr("Unavailable")
       /\ hd.variant \in {"Wayland", "X11"} =>
             /\ hd_got[i].ok /\ hd_got[i].raw = Family(hd.variant)
             /\ hd_got[i].ptr = hd.ptr /\ hd_got[i].ptr # 0
       /\ hd_got[i] = hd_got[1]

\* An X11 display handle made without Xlib was queried twice.
C26_Witness ==
    /\ hd_in.kind = "display" /\ hd_in.backend = "x11" /\ ~hd_in.xlib_open
    /\ hd = Unavailable
    /\ Len(hd_got) = 2

\* C21: a getter that runs on any thread while the main-loop thread updates
\* the state returns a pair (width and height, or x and y) that one update
\* stored together, or that the state was made with: never one component of
\* an older update with one of a newer.
C21_NoTornPair ==
    \A t \in Threads :
       rd[t].pc = "read2" => <<rd[t].a, rd[t].b>> \in rd[t].seen

\* A getter has read the size (2, 2), which an update stored over the size
\* (1, 1) the state was made with.
C21_Witness ==
    \E t \in Threads :
       /\ rd[t].pc = "read2" /\ rd[t].g = "surface_size"
       /\ <<rd[t].a, rd[t].b>> = <<2, 2>>

\* C22: the mutex of the state is not shared with the processing of the
\* request channel.  The main-loop thread holds it only inside an update of
\* the state: never while the consumer applies a request, so that a getter
\* on any thread is not kept waiting by a long closure and keeps no request
\* waiting, and never across a callback of the application.
C22_StateLockNotShared ==
    /\ lock = MainThread => upd.k # 0 /\ cb = "none" /\ closure = None
    /\ closure # None \/ cb # "none" => Acquirable(lock) \/ lock \in Threads

\* While the consumer is inside a WithGtkWindow closure, a thread is inside
\* surface_size with the mutex and has read the size an update stored.
C22_Witness ==
    /\ closure # None /\ Unwrap(closure).kind = "WithGtkWindow"
    /\ \E t \in Threads :
          lock = t /\ rd[t].pc = "read2" /\ <<rd[t].a, rd[t].b>> = <<2, 2>>

\* C30: a send that fails because its receiver is gone does not stop the
\* loop.  The sender only logs or ignores the error: it does not panic, the
\* channels, the exit code and the control flow are as before, the registry
\* holds what it would hold without the send, the driver is where it was, and
\* the wake that follows the send is still issued; so the pump calls that
\* come later find the state a send never attempted would have left.
SendFailed == failed' # failed
WakeIssued ==
    \/ wake_token'
    \/ \E t \in Threads : bg_wake'[t] /\ ~bg_wake[t]
    \* the handlers of the signals send without a wake
    \/ LoopDropped /\ bg_wake' = bg_wake

C30_FailedSendOnlyLogged ==
    [][SendFailed =>
         /\ UNCHANGED <<requests, events_first, events_q, redraw_first, redraw_q>>
         /\ UNCHANGED <<exit_code, control_flow, pc, cb, status, consumer, native_q>>
         /\ windows' = windows \/ (next_id' # next_id /\ windows' = windows \cup {next_id})
         /\ WakeIssued]_vars

\* A send has failed after the consumer ended in a panic, the wake that
\* followed it was taken by a later pump call, and that call returned
\* Continue.
C30_Witness ==
    /\ failed > 0 /\ consumer = "panicked"
    /\ pc = "idle" /\ status = Continue
    /\ ~wake_token /\ \A t \in Threads : ~bg_wake[t]

\* C31: can_create_surfaces is called in the Init iteration only, directly
\* after new_events(Init) and before any queued event; the Init iteration is
\* the first iteration after the loop is started or started again, a pump
\* call that runs none has had one since then, and no callback of the
\* application comes before it.
C31_CanCreateAtStartup ==
    /\ \A i \in 1..Len(iter_log) :
          iter_log[i].cb = "can_create_surfaces" =>
             i = 2 /\ iter_log[1] = Entry("new_events", 0, "Init")
    /\ cb = "can_create_surfaces" =>
          iter_log = <<Entry("new_events", 0, "Init"),
                       Entry("can_create_surfaces", 0, "")>>
    /\ iter_log # <<>> =>
          /\ iter_log[1].cb = "new_events"
          /\ (iter_log[1].ev = "Init") = (run_iters = 1)
          /\ iter_log[1].ev = "Init" /\ Len(iter_log) > 1 =>
                iter_log[2].cb = "can_create_surfaces"
    /\ cb # "none" => iter_log # <<>>
    /\ pc \notin {"idle", "new_events"} => loop_running /\ run_iters >= 1

\* A run has returned Ok, the loop was pumped again, and the application is
\* in can_create_surfaces once more.
C31_Witness ==
    /\ run_result = "Ok" /\ ~in_run
    /\ cb = "can_create_surfaces" /\ run_iters = 1

\* C32: a pump call that has acquired the main context returns Exit(code)
\* when the exit code is Some(code) as it finishes, and marks the loop
\* not-running; it returns Continue when there is none, and the loop stays
\* running.  A call that cannot acquire the main context returns Exit(1) and
\* leaves the mark and the exit code alone.  And when the exit code is set at
\* the end of the Init iteration, the call goes to its return with no poll
\* and no second iteration.
PumpReturns == pc = "pump_end" /\ pc' = "idle"
PumpRefused == pc = "idle" /\ pc' = "idle" /\ status'.k # "none" /\ status' # status

C32_StatusFollowsExitCode ==
    [][/\ PumpReturns =>
             /\ status' = IF IsSome(exit_code) THEN Exit(Unwrap(exit_code)) ELSE Continue
             /\ exit_code' = exit_code
             /\ loop_running /\ loop_running' = ~IsSome(exit_code)
             /\ ~drained => IsSome(exit_code)
             /\ IsSome(exit_code) /\ iter_log # <<>> /\ iter_log[1].ev = "Init" => ~drained
       /\ PumpRefused =>
             status' = Exit(1) /\ UNCHANGED <<loop_running, exit_code>>
       /\ pc = "check_exiting" /\ pc' # pc /\ IsSome(exit_code) => pc' = "pump_end"]_vars

\* C32 as stated: every pump call returns Exit(code) exactly when the exit
\* code is Some(code), and then the loop is marked not-running.
C32_ExitIffExitCode ==
    [][status' # status /\ status'.k # "none" =>
          /\ status' = IF IsSome(exit_code') THEN Exit(Unwrap(exit_code')) ELSE Continue
          /\ loop_running' = (status' = Continue)]_vars

\* A pump call has returned Exit(0) after its Init iteration, without a poll.
C32_Witness ==
    /\ pc = "idle" /\ status = Exit(0)
    /\ ~loop_running /\ ~drained /\ run_iters = 0
    /\ exit_code = Some(0)

\* A step that hands the application a window event of window `id`.
WindowEventFor(id) ==
    /\ cb' = "window_event"
    /\ iter_log' # iter_log
    /\ Last(iter_log').id = id

\* C33: once the Destroyed event of a window has been handed to the
\* application, no step hands it another window event of that window, be it
\* later in the same iteration or in a later one.
C33_NothingAfterDestroyed ==
    [][\A id \in WindowIds : gone[id] > 0 => ~WindowEventFor(id)]_vars

\* The handle of window `id` has been dropped.
Dropped(id) == id < next_id /\ id \notin handles
\* Destroy requests for `id` enqueued so far: those waiting and the one received.
DestroysOf(id) ==
    Cardinality({i \in 1..Len(requests) :
                    requests[i].kind = "Destroy" /\ requests[i].id = id})
    + (IF id \in destroy_seen THEN 1 ELSE 0)
\* Destroyed events for `id` sent so far: those waiting and those delivered.
DestroyedOf(id) ==
    LET held == Queued(events_first, events_q) IN
    Cardinality({i \in 1..Len(held) : held[i].ev = "Destroyed" /\ held[i].id = id})
    + gone[id]
\* The Destroy of `id` has run its course.
DestroyDone(id) == id \notin windows /\ ~native[id].alive /\ gone[id] = 1

DestroyOnce ==
    /\ \A id \in WindowIds :
          /\ DestroysOf(id) = (IF Dropped(id) THEN 1 ELSE 0)
          /\ DestroyedOf(id) = (IF id \in destroy_seen THEN 1 ELSE 0)
          /\ id \in destroy_seen => id \notin windows /\ ~native[id].alive
          /\ id < next_id /\ id \notin destroy_seen => id \in windows /\ native[id].alive
    /\ [][\A id \in WindowIds :
             /\ native[id].alive /\ ~native'[id].alive =>
                   id \in windows /\ id \notin windows' /\ id \notin destroy_seen
             /\ id < next_id /\ ~native[id].alive => ~native'[id].alive]_vars

IterationOrder ==
    {<<"new_events", "can_create">>, <<"new_events", "drain">>,
     <<"can_create", "drain">>, <<"drain", "proxy">>, <<"proxy", "collect">>,
     <<"collect", "deliver">>, <<"deliver", "about_to_wait">>,
     <<"about_to_wait", "check_exiting">>, <<"about_to_wait", "pump_end">>,
     <<"check_exiting", "pump_end">>, <<"pump_end", "idle">>}
LoggedCb(name) == \E i \in 1..Len(iter_log) : iter_log[i].cb = name

\* C35: with the exit code set in the middle of an iteration the iteration
\* goes on as without it: the event queue is drained to its end, each event
\* handed to the application; a pending proxy wake is delivered; each window
\* whose redraw was pending is given RedrawRequested; about_to_wait is
\* called; and from there the call goes to its return, without a wait, and
\* returns Exit.
C35_ExitEndsTheIteration ==
    [][IsSome(exit_code) /\ pc # "idle" =>
          /\ pc' # pc => <<pc, pc'>> \in IterationOrder
          /\ pc = "drain" /\ (pc' # pc \/ iter_log' # iter_log) =>
                IF Queued(events_first, events_q) = <<>>
                THEN pc' = "proxy" /\ delivered = UpTo(ev_serial)
                ELSE /\ pc' = pc /\ cb' = "window_event"
                     /\ delivered' = Append(delivered, Queued(events_first, events_q)[1].n)
          /\ pc = "proxy" /\ pc' # pc =>
                /\ ~proxy_wake_flag'
                /\ proxy_wake_flag => cb' = "proxy_wake_up"
          /\ pc = "collect" /\ pc' = "deliver" =>
                /\ Queued(redraw_first, redraw_q) = <<>>
                /\ \A i \in 1..Len(iter_start.redraw) :
                      \E j \in 1..Len(redraws) : redraws[j] = iter_start.redraw[i]
          /\ pc = "about_to_wait" /\ pc' # pc =>
                /\ cb' = "about_to_wait"
                /\ redraws = <<>>
                /\ iter_start.flag => LoggedCb("proxy_wake_up")
                /\ \A i \in 1..Len(iter_start.redraw) :
                      RedrawCount(iter_start.redraw[i]) = 1
          /\ pc = "pump_end" /\ pc' # pc =>
                /\ status' = Exit(Unwrap(exit_code))
                /\ ~loop_running']_vars

\* exit() was called in new_events of an iteration that began with a window
\* event, a proxy wake and a redraw pending; all three and about_to_wait have
\* been delivered and the call is about to return.
C35_Witness ==
    /\ pc = "pump_end" /\ IsSome(exit_code) /\ ~exit_in_we
    /\ iter_log = <<Entry("new_events", 0, "WaitCancelled"),
                    Entry("window_event", 1, "CloseRequested"),
                    Entry("proxy_wake_up", 0, ""),
                    Entry("window_event", 1, "RedrawRequested"),
                    Entry("about_to_wait", 0, "")>>

\* The ids waiting in the redraw queue, and the ids collected by the
\* iteration under way that are still to be delivered.
RedrawQueue == Queued(redraw_first, redraw_q)
Collected(id) == pc = "deliver" /\ \E i \in 1..Len(redraws) : redraws[i] = id
\* request_redraw called while the application is given RedrawRequested or
\* about_to_wait.
AskedInCallback(id) ==
    /\ RedrawQueue' = Append(RedrawQueue, id)
    /\ cb = "about_to_wait" \/ (cb = "window_event" /\ IsRedraw(Last(iter_log)))

\* C36: a redraw asked for while the application is given RedrawRequested or
\* about_to_wait is not delivered in the iteration under way: the id stays in
\* the queue, which only the collecting step of an iteration takes from, and
\* no window is given RedrawRequested twice in one iteration. The next
\* computation of the effective timeout finds it and yields zero, the next
\* iteration collects every id queued and delivers each once, and under the
\* scheduling of the loop every id queued is eventually collected.
C36_RedrawAgainNextIteration ==
    /\ [][/\ \A id \in WindowIds :
                AskedInCallback(id) =>
                   /\ pc \in {"deliver", "check_exiting", "pump_end"}
                   /\ UNCHANGED <<redraws, iter_log, pc>>
          /\ RedrawQueue' # RedrawQueue =>
                \/ \E id \in WindowIds : RedrawQueue' = Append(RedrawQueue, id)
                \/ pc = "collect" /\ RedrawQueue' = Tail(RedrawQueue)
          /\ pc \in {"deliver", "about_to_wait", "check_exiting", "pump_end"} =>
                \A i \in 1..Len(RedrawQueue) : RedrawQueue'[i] = RedrawQueue[i]
          /\ TimeoutComputed /\ RedrawQueue # <<>> => timeout' = Some(0)
          /\ pc = "poll_block" => RedrawQueue = <<>>
          /\ pc = "collect" /\ pc' = "deliver" =>
                /\ RedrawQueue = <<>>
                /\ \A i \in 1..Len(iter_start.redraw) : Collected(iter_start.redraw[i])'
          /\ pc = "about_to_wait" /\ pc' # pc =>
                /\ redraws = <<>>
                /\ \A i \in 1..Len(iter_start.redraw) :
                      RedrawCount(iter_start.redraw[i]) = 1]_vars
    /\ \A id \in WindowIds : RedrawCount(id) <= 1
    /\ \A id \in WindowIds :
          (\E i \in 1..Len(RedrawQueue) : RedrawQueue[i] = id) ~> Collected(id)

\* Window 1 asked for a redraw while it was given RedrawRequested, and again
\* in about_to_wait: the call returned with both in the queue, and the next
\* call has fixed its timeout at zero.
C36_Witness ==
    /\ pc = "gtk_poll" /\ timeout = Some(0)
    /\ RedrawQueue = <<1, 1>>
    /\ run_iters = 2 /\ iter_log = <<>>

\* A step in which a pump call reports a non-zero exit.
NonZeroExit == status' # status /\ status'.k = "Exit" /\ status'.code # 0
\* A step in which the application calls exit().
ExitCalled == exit_called' /\ (~exit_called \/ exit_code' # exit_code)

Geometry(st) ==
    <<st.surface_x, st.surface_y, st.surface_width, st.surface_height,
      st.outer_x, st.outer_y, st.outer_width, st.outer_height>>
\* The update made by this step.
UpdateMade(op) == stored' # stored /\ Last(stored'.ops) = op

Fifo == Queued(events_first, events_q)

\* C39: the receiver is the FIFO channel beneath it.  A send appends to it;
\* a try_recv returns and removes its head, or returns nothing when it is
\* empty; has_incoming leaves it as it is and returns whether it is not
\* empty.  Hence the items returned so far, followed by those held, are the
\* items sent, in the order of the sends; and after a has_incoming that
\* returned true the receiver holds an item until a try_recv, which returns
\* the head.
C39_ReceiverIsFifo ==
    /\ delivered \o Serials(Fifo) = UpTo(ev_serial)
    /\ (rx_ret.op = "has_incoming" /\ rx_ret.ok) =>
          /\ Fifo # <<>>
          /\ TryRecv(events_first, events_q)[1] = Some(Head(Fifo))
    /\ [][IF ev_serial' # ev_serial
          THEN /\ Len(Fifo') = Len(Fifo) + 1
               /\ SubSeq(Fifo', 1, Len(Fifo)) = Fifo
               /\ Last(Fifo').n = ev_serial'
               /\ UNCHANGED <<delivered, rx_ret>>
          ELSE IF rx_ret'.op = "try_recv"
          THEN /\ rx_ret'.ok = (Fifo # <<>>)
               /\ IF Fifo = <<>>
                  THEN rx_ret'.item = None /\ UNCHANGED <<Fifo, delivered>>
                  ELSE /\ rx_ret'.item = Some(Head(Fifo))
                       /\ Fifo' = Tail(Fifo)
                       /\ delivered' = Append(delivered, Head(Fifo).n)
          ELSE /\ rx_ret'.op = "has_incoming"
               /\ rx_ret'.ok = (Fifo # <<>>)
               /\ UNCHANGED <<Fifo, delivered>>]_vars

\* try_recv returned the first of three events sent, and has_incoming has
\* then returned true: the receiver keeps the second event in `first` while
\* the third waits in the channel.
C39_Witness ==
    /\ ev_serial = 3 /\ delivered = <<1>>
    /\ rx_ret.op = "has_incoming" /\ rx_ret.ok
    /\ Serials(events_first) = <<2>> /\ Serials(events_q) = <<3>>

\* The places of gtk_poll at which its timer is installed.
InGtkPoll == pc \in {"poll_block", "poll_drain"}
\* The step in which gtk_poll returns.
GtkPollReturns == pc = "poll_drain" /\ pc' = "cause"

\* C40: a timer runs only inside the gtk_poll call that installed it; when
\* the call returns after a positive timeout its timer has been removed
\* once, by firing or by gtk_poll, and never twice; and a timer fires only
\* in the call that installed it, after its own time has run out.
C40_TimerWithinTheCall ==
    /\ ~InGtkPoll => timer = None
    /\ Len(timer_rm) <= 1
    /\ IsSome(timer) => timer_rm = <<>> /\ ~timer_fired
    /\ [][/\ GtkPollReturns =>
                /\ timer' = None
                /\ (IsSome(timeout) /\ timeout # Some(0)) =>
                      timer_rm' = (IF timer_fired THEN <<"fired">> ELSE <<"removed">>)
                /\ ~(IsSome(timeout) /\ timeout # Some(0)) => timer_rm' = <<>>
          /\ timer_fired' /\ ~timer_fired =>
                /\ pc = "poll_drain" /\ timer = Some(0)
                /\ IsSome(timeout) /\ timeout # Some(0)
          /\ timer' # timer /\ IsSome(timer') =>
                \/ pc = "gtk_poll" /\ timer' = timeout
                \/ pc = "poll_block" /\ IsSome(timer)]_vars

\* A pump call with a timeout of one tick waited until its timer fired, and
\* gtk_poll has returned without removing the timer again.
C40_Witness ==
    /\ pc = "cause" /\ timer_rm = <<"fired">>
    /\ timer = None /\ timeout = Some(1)

====
